---------------------------- MODULE Spec2Model ----------------------------
(***************************************************************************)
(* Model of Trainer.train / Trainer.fit (src/mist/runtime/run.py): the     *)
(* multi-process, multi-fold training driver.  One TLA+ process per        *)
(* worker (rank); every action is a statement block of Trainer.train, in   *)
(* the block structure Python gives the file (the indentation that the     *)
(* interpreter sees, not the one the comments suggest).                    *)
(***************************************************************************)
EXTENDS Integers, Sequences, FiniteSets, TLC

(***************************************************************************)
(* Bounds of the model (inputs of the run are drawn from these).           *)
(***************************************************************************)
MaxWorld == 2
MaxFolds == 2
MaxEpochs == 2
MaxSteps == 2
MaxIds == 5
MaxHeads == 3
MaxLoss == 2
MaxMissing == 1
MaxSeed == 1
MaxFed == 3
MaxCalls == 6
MaxScheduleEpochs == 4
MaxAlphaCalls == 2
MaxLoopSteps == 3

(***************************************************************************)
(* Program constants.                                                      *)
(***************************************************************************)
\* run.py:720 and 743: "if patch_counter >= 50: break"
PatchLimit == 50

\* Number of fold labels of the training-paths table (k-fold assignment).
NumFoldLabels == MaxFolds + 1

\* Loss kinds of mist_arguments.loss that Trainer.train distinguishes.
BoundaryLosses == {"bl", "hdl", "gsl"}
Losses == {"dice_ce", "bl"}

\* mist_arguments.val_percent, in percent.
ValPercents == {50}

\* mist_arguments.batch_size values.
BatchSizes == {2}

\* The fold lists mist_arguments.folds: <<0>>, <<0,1>>, ...
FoldLists == { [i \in 1..n |-> i - 1] : n \in 1..MaxFolds }

\* mist_arguments.steps_per_epoch: None (<< >> here: not given by the
\* user), or << n >>: a small number, or one more than the patch limit of
\* the loop of line 719.
None == << >>
StepsChoices == {None, << MaxSteps >>, << PatchLimit + 1 >>}

\* The training-paths dataframe: id i carries fold label (i-1) % k.
Tables == { [i \in 1..n |-> (i - 1) % NumFoldLabels] : n \in 2..MaxIds }

\* The three folders of preprocessed arrays that train() lists per fold.
Folders == {"images", "labels", "dtms"}

\* The value of one batch's loss (loss.item()), as a small integer.
LossValues == 1..MaxLoss

VARIABLES
  world_size,        \* torch.cuda.device_count() (at least 1 worker runs)
  mist_arguments,    \* the read-only part of the user arguments
  df,                \* data_structures["training_paths_dataframe"]: id -> fold
  missing_files,     \* per folder: training ids the path list does not hold
  args,              \* preprocess_dataset(args): the no_preprocess argument
  config_json,       \* preprocess_dataset: the config read from config.json
  steps_per_epoch,   \* each process's copy of mist_arguments.steps_per_epoch
  pc,                \* each worker's position in Trainer.train
  err,               \* the exception that ended the worker ("" if none)
  bound,             \* the local names of train() that are bound in the worker
  fold_index,        \* position of "for fold in folds" (0 before the loop)
  epoch,             \* the local "epoch" (meaningful when "epoch" is bound)
  epochs_started,    \* state of the iterator of "for epoch in range(epochs)"
  step,              \* iterations done by the inner "for _ in range(...)"
  patch_counter,     \* the local "patch_counter"
  n_train,           \* len(train_images) after the split
  n_val,             \* len(val_images) after the split
  val_steps,         \* the local "val_steps"
  best_validation_loss, \* rank 0: "unset" or "inf" (np.Inf)
  train_state,       \* per worker: parameters, gradient scaler, last loss
  hist               \* per worker: the operations it has performed, in order

vars == << world_size, mist_arguments, df, missing_files, args, config_json,
           steps_per_epoch,
           pc, err, bound, fold_index, epoch, epochs_started, step,
           patch_counter, n_train, n_val, val_steps, best_validation_loss,
           train_state, hist >>

Ranks == 0..(world_size - 1)

\* An entry of hist: the operation, and the fold and epoch it belongs to
\* (fold label and epoch index; NoFold / NoEpoch outside the loops).
NoFold == MaxFolds + 100
NoEpoch == MaxEpochs + 100
\* v is the value the operation produced (a loss or a mean), 0 if none.
EventV(op, f, e, v) == [op |-> op, fold |-> f, epoch |-> e, v |-> v]
Event(op, f, e) == EventV(op, f, e, 0)

(***************************************************************************)
(* Helpers.                                                                *)
(***************************************************************************)
Log(r, evs) == [hist EXCEPT ![r] = @ \o evs]

\* A raise that nothing in train() catches: the worker ends there.
\* cleanup() (run.py:920) is not on that path.
Raise(r, exc) ==
  /\ pc' = [pc EXCEPT ![r] = "crashed"]
  /\ err' = [err EXCEPT ![r] = exc]

folds == mist_arguments.folds
fold(r) == folds[fold_index[r]]

\* run.py:255-260: the ids whose fold label differs from the current fold.
train_ids(f) == { i \in DOMAIN df : df[i] # f }

\* sklearn.model_selection.train_test_split with a float test_size:
\* n_test = ceil(test_size * n), n_train = n - n_test.
TestSize(n, pct) == (n * pct + 99) \div 100

\* Exact fractions << numerator, denominator >>: loss values, means of
\* losses and weights of loss terms.
FracAdd(a, b) == << a[1] * b[2] + b[1] * a[2], a[2] * b[2] >>
FracSub(a, b) == << a[1] * b[2] - b[1] * a[2], a[2] * b[2] >>
FracMul(a, b) == << a[1] * b[1], a[2] * b[2] >>
FracInv(a) == << a[2], a[1] >>
FracEq(a, b) == a[1] * b[2] = b[1] * a[2]

RECURSIVE FracPow(_, _)
FracPow(a, n) == IF n = 0 THEN << 1, 1 >> ELSE FracMul(a, FracPow(a, n - 1))

(***************************************************************************)
(* The state of one worker's model, optimizer and gradient scaler, and the *)
(* loss of its last train_step.  params counts the optimizer updates that  *)
(* have been applied to the model parameters; scale is None when the       *)
(* worker has no GradScaler, else << scale >>; the two running means are   *)
(* None in a worker that has not created them.                             *)
(***************************************************************************)
NoTrainState ==
  [ params |-> 0, scale |-> None, growth_tracker |-> 0, found_inf |-> FALSE,
    loss |-> None, terms |-> None, current_loss |-> None,
    running_loss_train |-> None, running_loss_validation |-> None,
    running_loss |-> None ]

\* Every array of every training id is listed.
NoMissing == [f \in Folders |-> 0]

\* The arguments and the configuration of preprocess_dataset in a run of
\* the trainer, which does not read them.
NoArgs == [ no_preprocess |-> FALSE ]
NoConfig == [ crop_to_fg |-> FALSE, modality |-> "ct",
              use_n4_bias_correction |-> FALSE ]

(***************************************************************************)
(* fit (run.py:922-940) starts world_size workers on Trainer.train.  The   *)
(* inputs of the run are drawn from the given sets.                        *)
(***************************************************************************)
Start(worlds, arguments, tables, steps, files) ==
  /\ world_size \in worlds
  /\ mist_arguments \in arguments
  /\ df \in tables
  /\ missing_files \in files
  /\ args = NoArgs
  /\ config_json = NoConfig
  /\ \E s \in steps : steps_per_epoch = [r \in Ranks |-> s]
  /\ pc = [r \in Ranks |-> "start"]
  /\ err = [r \in Ranks |-> ""]
  /\ bound = [r \in Ranks |-> {}]
  /\ fold_index = [r \in Ranks |-> 0]
  /\ epoch = [r \in Ranks |-> 0]
  /\ epochs_started = [r \in Ranks |-> 0]
  /\ step = [r \in Ranks |-> 0]
  /\ patch_counter = [r \in Ranks |-> 0]
  /\ n_train = [r \in Ranks |-> 0]
  /\ n_val = [r \in Ranks |-> 0]
  /\ val_steps = [r \in Ranks |-> 0]
  /\ best_validation_loss = [r \in Ranks |-> "unset"]
  /\ train_state = [r \in Ranks |-> NoTrainState]
  /\ hist = [r \in Ranks |-> << >>]

\* The runs of the driver: every fold list, epoch count, table and
\* steps_per_epoch; plain float32 training of a model without auxiliary
\* outputs, every array on disk.
Init ==
  Start(1..MaxWorld,
        [ folds : FoldLists,
          epochs : 1..MaxEpochs,
          val_percent : ValPercents,
          batch_size : BatchSizes,
          loss : Losses,
          use_dtms : BOOLEAN,
          amp : {FALSE},
          clip_norm : {FALSE},
          deep_supervision : {FALSE},
          deep_supervision_heads : {0},
          vae_reg : {FALSE},
          l2_reg : {FALSE},
          l1_reg : {FALSE},
          seed_val : {0},
          boundary_loss_schedule : {"constant"},
          loss_schedule_constant : {<< 1, 2 >>},
          linear_schedule_pause : {0},
          step_schedule_step_length : {1} ],
        Tables, StepsChoices, {NoMissing})

\* The runs whose path lists lack arrays: each of the three lists of a
\* fold may lack up to MaxMissing of the fold's training ids.
PathsInit ==
  Start(1..MaxWorld,
        [ folds : FoldLists,
          epochs : {1},
          val_percent : ValPercents,
          batch_size : BatchSizes,
          loss : Losses,
          use_dtms : BOOLEAN,
          amp : {FALSE},
          clip_norm : {FALSE},
          deep_supervision : {FALSE},
          deep_supervision_heads : {0},
          vae_reg : {FALSE},
          l2_reg : {FALSE},
          l1_reg : {FALSE},
          seed_val : {0},
          boundary_loss_schedule : {"constant"},
          loss_schedule_constant : {<< 1, 2 >>},
          linear_schedule_pause : {0},
          step_schedule_step_length : {1} ],
        Tables, {<< MaxSteps >>}, [Folders -> 0..MaxMissing])

\* The arguments that vary the options of the training step: every loss
\* call signature, AMP, gradient clipping, deep supervision with
\* 0..MaxHeads auxiliary heads, and the penalty terms; one epoch per fold.
StepArguments ==
  { a \in [ folds : FoldLists,
            epochs : {1},
            val_percent : ValPercents,
            batch_size : BatchSizes,
            loss : {"dice_ce", "cldice", "bl"},
            use_dtms : BOOLEAN,
            amp : BOOLEAN,
            clip_norm : BOOLEAN,
            deep_supervision : BOOLEAN,
            deep_supervision_heads : 0..MaxHeads,
            vae_reg : BOOLEAN,
            l2_reg : BOOLEAN,
            l1_reg : BOOLEAN,
            seed_val : {0},
            boundary_loss_schedule : {"constant"},
            loss_schedule_constant : {<< 1, 2 >>},
            linear_schedule_pause : {0},
            step_schedule_step_length : {1} ] :
      a.deep_supervision \/ a.deep_supervision_heads = 0 }

\* The runs of one worker with these arguments.
StepInit ==
  Start({1}, StepArguments,
        { [i \in 1..MaxIds |-> (i - 1) % NumFoldLabels] },
        {<< MaxSteps >>}, {NoMissing})

\* The runs that vary the seed of the split: every fold list and table,
\* seed_val in 0..MaxSeed.
SplitInit ==
  Start(1..MaxWorld,
        [ folds : FoldLists,
          epochs : {1},
          val_percent : ValPercents,
          batch_size : BatchSizes,
          loss : {"dice_ce"},
          use_dtms : BOOLEAN,
          amp : {FALSE},
          clip_norm : {FALSE},
          deep_supervision : {FALSE},
          deep_supervision_heads : {0},
          vae_reg : {FALSE},
          l2_reg : {FALSE},
          l1_reg : {FALSE},
          seed_val : 0..MaxSeed,
          boundary_loss_schedule : {"constant"},
          loss_schedule_constant : {<< 1, 2 >>},
          linear_schedule_pause : {0},
          step_schedule_step_length : {1} ],
        Tables, {<< MaxSteps >>}, {NoMissing})

config == << world_size, mist_arguments, df, missing_files, args,
            config_json >>

(***************************************************************************)
(* setup (run.py:217-226, called at 241): dist.init_process_group returns  *)
(* once all world_size workers have called it.                             *)
(***************************************************************************)
setup(r) ==
  /\ r \in Ranks
  /\ pc[r] = "start"
  /\ pc' = [pc EXCEPT ![r] = "join_wait"]
  /\ hist' = Log(r, << Event("join", NoFold, NoEpoch) >>)
  /\ UNCHANGED << config, train_state, steps_per_epoch, err, bound, fold_index, epoch,
                  epochs_started, step, patch_counter, n_train, n_val,
                  val_steps, best_validation_loss >>

setup_return(r) ==
  /\ r \in Ranks
  /\ pc[r] = "join_wait"
  /\ \A q \in Ranks : pc[q] # "start"
  /\ pc' = [pc EXCEPT ![r] = "announce"]
  /\ UNCHANGED << config, train_state, steps_per_epoch, err, bound, fold_index, epoch,
                  epochs_started, step, patch_counter, n_train, n_val,
                  val_steps, best_validation_loss, hist >>

\* run.py:243-250: rank 0 prints "Starting training".
announce(r) ==
  /\ r \in Ranks
  /\ pc[r] = "announce"
  /\ pc' = [pc EXCEPT ![r] = "fold_head"]
  /\ hist' = IF r = 0
               THEN Log(r, << Event("console_print", NoFold, NoEpoch) >>)
               ELSE hist
  /\ UNCHANGED << config, train_state, steps_per_epoch, err, bound, fold_index, epoch,
                  epochs_started, step, patch_counter, n_train, n_val,
                  val_steps, best_validation_loss >>

\* run.py:253: "for fold in self.mist_arguments.folds"; when the list is
\* exhausted control falls to the statement after the loop, line 753.
fold_head(r) ==
  /\ r \in Ranks
  /\ pc[r] = "fold_head"
  /\ IF fold_index[r] < Len(folds)
       THEN /\ fold_index' = [fold_index EXCEPT ![r] = @ + 1]
            /\ pc' = [pc EXCEPT ![r] = "split"]
       ELSE /\ pc' = [pc EXCEPT ![r] = "after_folds"]
            /\ UNCHANGED fold_index
  /\ UNCHANGED << config, train_state, steps_per_epoch, err, bound, epoch,
                  epochs_started, step, patch_counter, n_train, n_val,
                  val_steps, best_validation_loss, hist >>

loop_state == << epoch, epochs_started, step, patch_counter >>
split_state == << n_train, n_val, val_steps >>

(***************************************************************************)
(* run.py:262-279: utils.get_numpy_file_paths_list(base_dir, folder,       *)
(* patient_ids) returns the list of array paths of the ids in one folder.  *)
(* Its length is what the model keeps: the list lacks missing_files of the *)
(* ids.                                                                    *)
(***************************************************************************)
get_numpy_file_paths_list(folder, patient_ids) ==
  LET n == Cardinality(patient_ids)
  IN IF missing_files[folder] < n THEN n - missing_files[folder] ELSE 0

Min(a, b) == IF a <= b THEN a ELSE b

(***************************************************************************)
(* run.py:254-303: the training ids of the fold and the single randomized  *)
(* split.  With use_dtms the second array is list(zip(train_labels,        *)
(* train_dtms)), as long as the shorter of the two.  train_test_split      *)
(* raises ValueError when its arrays differ in length and when either      *)
(* side of the split would be empty.                                       *)
(***************************************************************************)
\* The ids of S in the order of the dataframe (ascending).
RECURSIVE Ordered(_)
Ordered(S) ==
  IF S = {} THEN << >>
  ELSE LET m == CHOOSE x \in S : \A y \in S : x <= y
       IN << m >> \o Ordered(S \ {m})

\* run.py:287 and 298: random_state=self.mist_arguments.seed_val, the same
\* in every worker.
random_state_per_rank(r) == mist_arguments.seed_val + r
random_state(r) == mist_arguments.seed_val

\* The shuffle of train_test_split: the permutation of 1..n that the
\* generator seeded with random_state draws.  It is a function of the seed
\* and of n alone; the model takes the rotation by the seed for it.
permutation(seed, n) == [i \in 1..n |-> ((i - 1 + seed) % n) + 1]

\* train_test_split(ids, test_size, random_state): the first n_test
\* entries of the shuffled list are the validation part, the rest the
\* training part.
train_test_split_overlapping(ids, nv, seed) ==
  LET shuffled == [i \in DOMAIN ids |-> ids[permutation(seed, Len(ids))[i]]]
  IN [ train |-> SubSeq(shuffled, nv, Len(ids) - 1),
       val |-> SubSeq(shuffled, 1, nv) ]
train_test_split(ids, nv, seed) ==
  LET shuffled == [i \in DOMAIN ids |-> ids[permutation(seed, Len(ids))[i]]]
  IN [ train |-> SubSeq(shuffled, nv + 1, Len(ids)),
       val |-> SubSeq(shuffled, 1, nv) ]

\* run.py:260-276: the list of one folder, each path named by the id it
\* belongs to, in the order of train_ids.
paths(folder, ids) ==
  SubSeq(Ordered(ids), 1, get_numpy_file_paths_list(folder, ids))

\* run.py:286: list(zip(train_labels, train_dtms)), as long as the shorter.
zip(a, b) == [i \in 1..Min(Len(a), Len(b)) |-> << a[i], b[i] >>]

\* run.py:290-291: zip(*train_labels_dtms): component k of every pair.
unzip(pairs, k) == [i \in DOMAIN pairs |-> pairs[i][k]]

NoPartition ==
  [ train |-> << >>, val |-> << >>, train_labels |-> << >>,
    val_labels |-> << >>, train_dtms |-> None ]

\* run.py:283-303: both arrays are split by one call, hence by the same
\* shuffle; with use_dtms the pairs are taken apart again and the
\* validation distance maps are dropped, else train_dtms = None.
partition(images, targets, nv, seed) ==
  LET x == train_test_split(images, nv, seed)
      y == train_test_split(targets, nv, seed)
  IN IF mist_arguments.use_dtms
       THEN [ train |-> x.train, val |-> x.val,
              train_labels |-> unzip(y.train, 1),
              val_labels |-> unzip(y.val, 1),
              train_dtms |-> << unzip(y.train, 2) >> ]
       ELSE [ train |-> x.train, val |-> x.val,
              train_labels |-> y.train,
              val_labels |-> y.val,
              train_dtms |-> None ]

split_data(r) ==
  /\ r \in Ranks
  /\ pc[r] = "split"
  /\ LET ids == train_ids(fold(r))
         train_images == paths("images", ids)
         train_labels == paths("labels", ids)
         train_targets == IF mist_arguments.use_dtms
                            THEN zip(train_labels, paths("dtms", ids))
                            ELSE train_labels
         images == Len(train_images)
         targets == Len(train_targets)
         nv == TestSize(images, mist_arguments.val_percent)
     IN IF images # targets \/ images = 0 \/ images - nv = 0
          THEN /\ Raise(r, "ValueError")
               /\ hist' = Log(r, << EventV("split", fold(r), NoEpoch,
                                           NoPartition) >>)
               /\ UNCHANGED << n_train, n_val >>
          ELSE /\ n_train' = [n_train EXCEPT ![r] = images - nv]
               /\ n_val' = [n_val EXCEPT ![r] = nv]
               /\ hist' = Log(r, << EventV("split", fold(r), NoEpoch,
                                           partition(train_images,
                                                     train_targets, nv,
                                                     random_state(r))) >>)
               /\ pc' = [pc EXCEPT ![r] = "check_val"]
               /\ UNCHANGED err
  /\ UNCHANGED << config, train_state, steps_per_epoch, bound, fold_index,
                  loop_state, val_steps, best_validation_loss >>

\* run.py:312: val_steps = len(val_images) // world_size.
validation_steps_ceil(nv, ws) == (nv + ws - 1) \div ws
validation_steps(nv, ws) == nv \div ws

\* run.py:307: "if len(val_images) < world_size".
InsufficientValidationSet_le(nv, ws) == nv <= ws
InsufficientValidationSet(nv, ws) == nv < ws

\* run.py:305-314: the validation-size check and val_steps.
check_validation_size_after_loaders(r) ==
  /\ r \in Ranks
  /\ pc[r] = "check_val"
  /\ IF InsufficientValidationSet(n_val[r], world_size)
       THEN /\ Raise(r, "InsufficientValidationSetError")
            /\ hist' = Log(r, << Event("train_loader", fold(r), NoEpoch),
                                 Event("validation_loader", fold(r),
                                       NoEpoch) >>)
            /\ UNCHANGED val_steps
       ELSE /\ val_steps' =
                 [val_steps EXCEPT
                    ![r] = validation_steps(n_val[r], world_size)]
            /\ pc' = [pc EXCEPT ![r] = "loaders"]
            /\ UNCHANGED << err, hist >>
  /\ UNCHANGED << config, train_state, steps_per_epoch, bound, fold_index,
                  loop_state, n_train, n_val, best_validation_loss >>
check_validation_size(r) ==
  /\ r \in Ranks
  /\ pc[r] = "check_val"
  /\ IF InsufficientValidationSet(n_val[r], world_size)
       THEN /\ Raise(r, "InsufficientValidationSetError")
            /\ UNCHANGED val_steps
       ELSE /\ val_steps' =
                 [val_steps EXCEPT
                    ![r] = validation_steps(n_val[r], world_size)]
            /\ pc' = [pc EXCEPT ![r] = "loaders"]
            /\ UNCHANGED err
  /\ UNCHANGED << config, train_state, steps_per_epoch, bound, fold_index,
                  loop_state, n_train, n_val, best_validation_loss, hist >>

\* run.py:316-350: the two loaders, then steps_per_epoch is written back
\* into mist_arguments when the user gave none.
build_loaders(r) ==
  /\ r \in Ranks
  /\ pc[r] = "loaders"
  /\ steps_per_epoch' =
       [steps_per_epoch EXCEPT ![r] =
          IF @ = None THEN << n_train[r] \div mist_arguments.batch_size >>
                      ELSE @]
  /\ hist' = Log(r, << Event("train_loader", fold(r), NoEpoch),
                       Event("validation_loader", fold(r), NoEpoch) >>)
  /\ pc' = [pc EXCEPT ![r] = "get_loss"]
  /\ UNCHANGED << config, train_state, err, bound, fold_index, loop_state, split_state,
                  best_validation_loss >>

\* run.py:352-382: the loss function and the check that a boundary loss
\* has distance maps.  After the split with use_dtms, train_dtms is the
\* tuple that zip(*...) returns (line 291), so isinstance(train_dtms, list)
\* at line 366 is false and the count comparison is not made.
get_loss(r) ==
  /\ r \in Ranks
  /\ pc[r] = "get_loss"
  /\ IF mist_arguments.loss \in BoundaryLosses /\ ~mist_arguments.use_dtms
       THEN Raise(r, "ValueError")
       ELSE /\ pc' = [pc EXCEPT ![r] = "build_model"]
            /\ UNCHANGED err
  /\ hist' = Log(r, << Event("get_loss", fold(r), NoEpoch) >>)
  /\ UNCHANGED << config, train_state, steps_per_epoch, bound, fold_index, loop_state,
                  split_state, best_validation_loss >>

\* torch.amp.GradScaler defaults (run.py:425 passes none of them):
\* init_scale 2**16, backoff_factor 1/2, growth_factor 2,
\* growth_interval 2000.
InitScale == 65536
BackoffDivisor == 2
GrowthFactor == 2
GrowthInterval == 2000

\* run.py:424-425: the fold has a gradient scaler only under AMP.
GradScaler_always == << InitScale >>
GradScaler == IF mist_arguments.amp THEN << InitScale >> ELSE None

(***************************************************************************)
(* utils.AlphaSchedule (run.py:73-80 build it from the epoch count, the    *)
(* schedule variant, the constant, the pause of the linear variant and     *)
(* the step length of the step variant; 753 calls it with the epoch        *)
(* index).  Its value is an exact fraction:                                *)
(*   constant: the constant;                                               *)
(*   linear:   0 during the pause, then a straight ramp that reaches the   *)
(*             constant at the last epoch of the run;                      *)
(*   step:     0 before the first step, then one equal share of the        *)
(*             constant more at every step_length epochs, the constant     *)
(*             from the last step on.                                      *)
(***************************************************************************)
Schedules == {"constant", "linear", "step"}

FracLe(a, b) == a[1] * b[2] <= b[1] * a[2]

AlphaSchedule_descending(e) ==
  LET a == mist_arguments
      c == a.loss_schedule_constant
      last == a.epochs - 1
      ramp == last - a.linear_schedule_pause
  IN CASE a.boundary_loss_schedule = "constant" -> c
       [] a.boundary_loss_schedule = "linear" ->
            IF e < a.linear_schedule_pause \/ ramp <= 0 THEN c
            ELSE FracMul(c, << last - e, ramp >>)
       [] a.boundary_loss_schedule = "step" ->
            LET steps == last \div a.step_schedule_step_length
                k == e \div a.step_schedule_step_length
            IN IF steps = 0 THEN c ELSE FracMul(c, << steps - k, steps >>)
AlphaSchedule(e) ==
  LET a == mist_arguments
      c == a.loss_schedule_constant
      last == a.epochs - 1
      ramp == last - a.linear_schedule_pause
  IN CASE a.boundary_loss_schedule = "constant" -> c
       [] a.boundary_loss_schedule = "linear" ->
            IF e < a.linear_schedule_pause THEN << 0, 1 >>
            ELSE IF ramp <= 0 THEN c
            ELSE FracMul(c, << e - a.linear_schedule_pause, ramp >>)
       [] a.boundary_loss_schedule = "step" ->
            LET steps == last \div a.step_schedule_step_length
                k == e \div a.step_schedule_step_length
            IN IF k = 0 THEN << 0, 1 >>
               ELSE FracMul(c, << k, steps >>)

(***************************************************************************)
(* utils.RunningMean (run.py:429-430 create one per fold for the training  *)
(* and one for the validation loss): a streaming accumulator (count, sum). *)
(* Calling it with a value folds the value in and returns the mean of the  *)
(* values folded in since the last reset; reset_states clears it.          *)
(***************************************************************************)
RunningMean == << [count |-> 0, sum |-> << 0, 1 >>] >>

running_mean_call(mean, value) ==
  << [count |-> mean[1].count + 1, sum |-> FracAdd(mean[1].sum, value)] >>

running_mean_result(mean) == FracMul(mean[1].sum, << 1, mean[1].count >>)

reset_states(mean) == RunningMean

\* run.py:384-446 and 703: a new model (fresh parameters), DDP wrapper,
\* optimizer, learning-rate schedule, gradient scaler under AMP, (rank 0)
\* running means, best loss, writer; patch_counter = 0.
build_model(r) ==
  /\ r \in Ranks
  /\ pc[r] = "build_model"
  /\ bound' = [bound EXCEPT ![r] =
                 @ \cup {"model", "optimizer", "learning_rate_scheduler"}
                   \cup (IF GradScaler # None
                           THEN {"amp_gradient_scaler"} ELSE {})
                   \cup (IF r = 0
                           THEN {"running_loss_train",
                                 "running_loss_validation", "writer"}
                           ELSE {})]
  /\ best_validation_loss' =
       IF r = 0 THEN [best_validation_loss EXCEPT ![r] = "inf"]
                ELSE best_validation_loss
  /\ patch_counter' = [patch_counter EXCEPT ![r] = 0]
  /\ epochs_started' = [epochs_started EXCEPT ![r] = 0]
  /\ train_state' =
       [train_state EXCEPT ![r] =
          [NoTrainState EXCEPT
             !.scale = GradScaler,
             !.running_loss_train = IF r = 0 THEN RunningMean ELSE None,
             !.running_loss_validation = IF r = 0 THEN RunningMean
                                                  ELSE None]]
  /\ hist' = Log(r, << Event("model", fold(r), NoEpoch),
                       Event("optimizer", fold(r), NoEpoch),
                       Event("learning_rate_scheduler", fold(r), NoEpoch) >>
                    \o (IF mist_arguments.amp
                          THEN << Event("grad_scaler", fold(r), NoEpoch) >>
                          ELSE << >>))
  /\ pc' = [pc EXCEPT ![r] = "epoch_head"]
  /\ UNCHANGED << config, steps_per_epoch, err, fold_index, epoch, step,
                  split_state >>

(***************************************************************************)
(* run.py:706-712: "for epoch in range(epochs)": model.train(True), then   *)
(* rank 0 enters the loop of line 719; the other ranks have no statement   *)
(* in the epoch body before line 743.  When the range is exhausted         *)
(* control falls to line 746.                                              *)
(***************************************************************************)
epoch_head(r) ==
  /\ r \in Ranks
  /\ pc[r] = "epoch_head"
  /\ IF epochs_started[r] < mist_arguments.epochs
       THEN /\ epoch' = [epoch EXCEPT ![r] = epochs_started[r]]
            /\ epochs_started' = [epochs_started EXCEPT ![r] = @ + 1]
            /\ bound' = [bound EXCEPT ![r] = @ \cup {"epoch"}]
            /\ step' = [step EXCEPT ![r] = 0]
            /\ hist' = Log(r, << Event("epoch_begin", fold(r),
                                       epochs_started[r]) >>)
            /\ pc' = [pc EXCEPT ![r] = IF r = 0 THEN "dump_loop"
                                                ELSE "epoch_tail"]
       ELSE /\ pc' = [pc EXCEPT ![r] = "set_trace"]
            /\ UNCHANGED << epoch, epochs_started, bound, step, hist >>
  /\ UNCHANGED << config, train_state, steps_per_epoch, err, fold_index, patch_counter,
                  split_state, best_validation_loss >>

dump_patch_folding(r) ==
  /\ r \in Ranks
  /\ pc[r] = "dump_loop"
  /\ IF step[r] < steps_per_epoch[r][1] /\ patch_counter[r] < PatchLimit
       THEN /\ bound' = [bound EXCEPT ![r] = @ \cup {"data"}]
            /\ hist' = Log(r, << Event("next_batch", fold(r), epoch[r]),
                                 Event("image_write", fold(r), epoch[r]) >>)
            /\ patch_counter' = [patch_counter EXCEPT ![r] = @ + 1]
            /\ step' = [step EXCEPT ![r] = @ + 1]
            /\ train_state' =
                 [train_state EXCEPT
                    ![r].running_loss_train =
                       running_mean_call(@, << 1, 1 >>)]
            /\ UNCHANGED pc
       ELSE /\ pc' = [pc EXCEPT ![r] = "epoch_tail"]
            /\ UNCHANGED << bound, hist, patch_counter, step, train_state >>
  /\ UNCHANGED << config, steps_per_epoch, err, fold_index, epoch,
                  epochs_started, split_state, best_validation_loss >>
\* run.py:719-741 (rank 0): one pass of "for _ in range(steps_per_epoch)":
\* stop at the patch limit, else pull one batch, write its image and label
\* patches to files and count it.  No forward, loss, backward or optimizer
\* step is made here.
dump_patch(r) ==
  /\ r \in Ranks
  /\ pc[r] = "dump_loop"
  /\ IF step[r] < steps_per_epoch[r][1] /\ patch_counter[r] < PatchLimit
       THEN /\ bound' = [bound EXCEPT ![r] = @ \cup {"data"}]
            /\ hist' = Log(r, << Event("next_batch", fold(r), epoch[r]),
                                 Event("image_write", fold(r), epoch[r]) >>)
            /\ patch_counter' = [patch_counter EXCEPT ![r] = @ + 1]
            /\ step' = [step EXCEPT ![r] = @ + 1]
            /\ UNCHANGED pc
       ELSE /\ pc' = [pc EXCEPT ![r] = "epoch_tail"]
            /\ UNCHANGED << bound, hist, patch_counter, step >>
  /\ UNCHANGED << config, train_state, steps_per_epoch, err, fold_index, epoch,
                  epochs_started, split_state, best_validation_loss >>

\* run.py:743-744: the last statement of the epoch body.
epoch_tail(r) ==
  /\ r \in Ranks
  /\ pc[r] = "epoch_tail"
  /\ hist' = Log(r, << Event("epoch_end", fold(r), epoch[r]) >>)
  /\ pc' = [pc EXCEPT ![r] = IF patch_counter[r] >= PatchLimit
                               THEN "set_trace" ELSE "epoch_head"]
  /\ UNCHANGED << config, train_state, steps_per_epoch, err, bound, fold_index,
                  loop_state, split_state, best_validation_loss >>

\* run.py:746: "import ipdb; ipdb.set_trace()", the last statement of the
\* fold body.  The worker stops at the debugger prompt; the debugger's
\* user resumes it ("continue") or ends it ("quit" raises BdbQuit).
set_trace(r) ==
  /\ r \in Ranks
  /\ pc[r] = "set_trace"
  /\ \E command \in {"continue", "quit"} :
       IF command = "continue"
         THEN /\ pc' = [pc EXCEPT ![r] = "fold_head"]
              /\ UNCHANGED err
         ELSE Raise(r, "BdbQuit")
  /\ hist' = Log(r, << Event("set_trace", fold(r), NoEpoch) >>)
  /\ UNCHANGED << config, train_state, steps_per_epoch, bound, fold_index, loop_state,
                  split_state, best_validation_loss >>

(***************************************************************************)
(* The statements after the fold loop (run.py:753 onwards are indented at  *)
(* the level of "for fold", so they follow the loop and run once).         *)
(* Reading a local name that no executed statement has bound raises        *)
(* UnboundLocalError.                                                      *)
(***************************************************************************)

(***************************************************************************)
(* compute_loss (run.py:466-594).  The loss is a weighted sum of the       *)
(* primary loss, the losses of the deep-supervision heads and the penalty  *)
(* terms; the model keeps the weight of every term, as an exact fraction   *)
(* << numerator, denominator >>, and computes it in the order of the code. *)
(***************************************************************************)
Half == << 1, 2 >>
Two == << 2, 1 >>

\* run.py:476-493 and 519-531: the arguments the loss function gets.
LossCall ==
  IF mist_arguments.use_dtms THEN "label, prediction, dtm, alpha"
  ELSE IF mist_arguments.loss \in {"cldice"} THEN "label, prediction, alpha"
  ELSE "label, prediction"

\* run.py:516-531: "loss += 0.5 ** (k + 1) * loss_fn(label, p, ...)" for
\* head k of n: the weights of heads k, k+1, ..., n-1.
RECURSIVE deep_supervision_weights(_, _)
deep_supervision_weights(k, n) ==
  IF k >= n THEN << >>
  ELSE << FracPow(Half, k + 1) >> \o deep_supervision_weights(k + 1, n)

\* run.py:536-540: c_norm = 1 / (2 - 2 ** -(len(deep_supervision) + 1)).
c_norm_geometric(n) == FracInv(FracSub(Two, FracInv(FracPow(Two, n))))
c_norm(n) == FracInv(FracSub(Two, FracInv(FracPow(Two, n + 1))))

\* The weight with which a flag adds its penalty term (the penalty times
\* the VAE loss or the norm of the parameters): one, or zero when the flag
\* is off.
Term(flag) == IF flag THEN << 1, 1 >> ELSE << 0, 1 >>

\* run.py:476-493: loss = loss_fn(label, output["prediction"], ...): the
\* primary term alone, with weight one.
primary_loss ==
  [ primary |-> << 1, 1 >>,
    heads |-> << >>,
    vae |-> << 0, 1 >>,
    l2 |-> << 0, 1 >>,
    l1 |-> << 0, 1 >> ]

\* run.py:541: "loss *= c_norm" multiplies every term the loss holds so far.
rescale(loss, c) ==
  [ primary |-> FracMul(c, loss.primary),
    heads |-> [k \in DOMAIN loss.heads |-> FracMul(c, loss.heads[k])],
    vae |-> FracMul(c, loss.vae),
    l2 |-> FracMul(c, loss.l2),
    l1 |-> FracMul(c, loss.l1) ]

\* run.py:515-541: under deep_supervision the head terms are added and the
\* sum is rescaled.
add_deep_supervision(loss) ==
  IF mist_arguments.deep_supervision
    THEN LET n == mist_arguments.deep_supervision_heads
         IN rescale([loss EXCEPT !.heads = deep_supervision_weights(0, n)],
                    c_norm(n))
    ELSE loss

\* run.py:553-593: "loss += penalty * term" for each flag that is set.
add_penalties(loss) ==
  [loss EXCEPT !.vae = FracAdd(@, Term(mist_arguments.vae_reg)),
               !.l2 = FracAdd(@, Term(mist_arguments.l2_reg)),
               !.l1 = FracAdd(@, Term(mist_arguments.l1_reg))]

\* The record of a computed loss: the loss function, the arguments of its
\* call and the weight of every term.
loss_record(loss) ==
  [ fn |-> mist_arguments.loss,
    call |-> LossCall,
    primary |-> loss.primary,
    heads |-> loss.heads,
    vae |-> loss.vae,
    l2 |-> loss.l2,
    l1 |-> loss.l1 ]

compute_loss_penalties_first ==
  loss_record(add_deep_supervision(add_penalties(primary_loss)))
compute_loss ==
  loss_record(add_penalties(add_deep_supervision(primary_loss)))

(***************************************************************************)
(* torch.amp.GradScaler, as train_step uses it (run.py:620-655).           *)
(* step(optimizer) unscales the gradients if unscale_ has not, and calls   *)
(* optimizer.step() only if none of them is inf or NaN; update() divides   *)
(* the scale by two after such a step, and doubles it after               *)
(* growth_interval consecutive steps without one.                          *)
(***************************************************************************)
scaler_step_unchecked(t, finite) ==
  [t EXCEPT !.params = @ + 1, !.found_inf = ~finite]
scaler_step(t, finite) ==
  [t EXCEPT !.params = IF finite THEN @ + 1 ELSE @, !.found_inf = ~finite]

scaler_update(t) ==
  IF t.found_inf
    THEN [t EXCEPT !.scale = << @[1] \div BackoffDivisor >>,
                   !.growth_tracker = 0]
    ELSE IF t.growth_tracker + 1 = GrowthInterval
           THEN [t EXCEPT !.scale = << @[1] * GrowthFactor >>,
                          !.growth_tracker = 0]
           ELSE [t EXCEPT !.growth_tracker = @ + 1]

\* run.py:600-672: the calls of one train_step, in order.
train_step_calls_amp_clip_scaled(finite) ==
  << "zero_grad", "autocast_forward", "scale_backward" >>
    \o (IF mist_arguments.clip_norm
          THEN << "clip_grad_norm", "unscale" >> ELSE << >>)
    \o << "scaler_step" >>
    \o (IF finite THEN << "optimizer_step" >> ELSE << >>)
    \o << "scaler_update" >>
train_step_calls_amp(finite) ==
  << "zero_grad", "autocast_forward", "scale_backward" >>
    \o (IF mist_arguments.clip_norm
          THEN << "unscale", "clip_grad_norm" >> ELSE << >>)
    \o << "scaler_step" >>
    \o (IF finite THEN << "optimizer_step" >> ELSE << >>)
    \o << "scaler_update" >>
train_step_calls_step_first(finite) ==
  IF mist_arguments.amp
    THEN train_step_calls_amp(finite)
    ELSE << "zero_grad", "forward", "optimizer_step", "backward" >>
           \o (IF mist_arguments.clip_norm
                 THEN << "clip_grad_norm" >> ELSE << >>)
train_step_calls(finite) ==
  IF mist_arguments.amp
    THEN train_step_calls_amp(finite)
    ELSE << "zero_grad", "forward", "backward" >>
           \o (IF mist_arguments.clip_norm
                 THEN << "clip_grad_norm" >> ELSE << >>)
           \o << "optimizer_step" >>

\* run.py:448-673: train_step on the worker state t: finite tells whether
\* every gradient of the backward pass is finite, value is the loss.
train_step(t, finite, value) ==
  LET after == IF mist_arguments.amp
                 THEN scaler_update(scaler_step(t, finite))
                 ELSE [t EXCEPT !.params = @ + 1]
  IN [after EXCEPT !.loss = << value >>, !.terms = << compute_loss >>]

RECURSIVE Events(_, _, _)
Events(ops, f, e) ==
  IF ops = << >> THEN << >>
  ELSE << Event(Head(ops), f, e) >> \o Events(Tail(ops), f, e)

\* run.py:753-774: alpha for the last epoch, then one train_step on the
\* batch that "data" still names.  Only the loop of line 719 (rank 0)
\* binds "data" before this point.
after_folds_train_step(r) ==
  /\ r \in Ranks
  /\ pc[r] = "after_folds"
  /\ IF {"epoch", "data"} \subseteq bound[r]
       THEN /\ \E finite \in BOOLEAN, value \in LossValues :
                 /\ train_state' =
                      [train_state EXCEPT ![r] = train_step(@, finite, value)]
                 /\ hist' = Log(r, << EventV("alpha", NoFold, NoEpoch,
                                             AlphaSchedule(epoch[r])),
                                      EventV("train_step", NoFold, NoEpoch,
                                             value) >>
                                     \o Events(train_step_calls(finite),
                                               NoFold, NoEpoch))
            /\ bound' = [bound EXCEPT ![r] = @ \cup {"alpha", "loss"}]
            /\ pc' = [pc EXCEPT ![r] = "lr_step"]
            /\ UNCHANGED err
       ELSE /\ Raise(r, "UnboundLocalError")
            /\ UNCHANGED << hist, bound, train_state >>
  /\ UNCHANGED << config, steps_per_epoch, fold_index, loop_state,
                  split_state, best_validation_loss >>

\* run.py:777: learning_rate_scheduler.step().
after_folds_lr_step(r) ==
  /\ r \in Ranks
  /\ pc[r] = "lr_step"
  /\ hist' = Log(r, << Event("lr_step", NoFold, NoEpoch) >>)
  /\ pc' = [pc EXCEPT ![r] = "reduce"]
  /\ UNCHANGED << config, train_state, steps_per_epoch, err, bound, fold_index,
                  loop_state, split_state, best_validation_loss >>

\* The number of dist.reduce calls a worker has issued.
RECURSIVE CountOp(_, _)
CountOp(h, op) ==
  IF h = << >> THEN 0
  ELSE (IF Head(h).op = op THEN 1 ELSE 0) + CountOp(Tail(h), op)

\* run.py:780: dist.reduce(loss, dst=0): the call, and its completion
\* (observed by loss.item() at 783) once every worker has issued it.
reduce_call(r) ==
  /\ r \in Ranks
  /\ pc[r] = "reduce"
  /\ hist' = Log(r, << Event("reduce", NoFold, NoEpoch) >>)
  /\ pc' = [pc EXCEPT ![r] = "reduce_wait"]
  /\ UNCHANGED << config, train_state, steps_per_epoch, err, bound, fold_index,
                  loop_state, split_state, best_validation_loss >>

\* The sum of the loss tensors of the workers of S.
RECURSIVE SumLoss(_)
SumLoss(S) ==
  IF S = {} THEN 0
  ELSE LET q == CHOOSE x \in S : TRUE
       IN train_state[q].loss[1] + SumLoss(S \ {q})

\* On the destination rank the tensor then holds the sum of all workers'
\* tensors; on the other ranks it is left as it was.
reduce_return(r) ==
  /\ r \in Ranks
  /\ pc[r] = "reduce_wait"
  /\ \A q \in Ranks : CountOp(hist[q], "reduce") >= CountOp(hist[r], "reduce")
  /\ train_state' =
       IF r = 0
         THEN [train_state EXCEPT ![r].loss = << SumLoss(Ranks) >>]
         ELSE train_state
  /\ pc' = [pc EXCEPT ![r] = "running_mean"]
  /\ UNCHANGED << config, steps_per_epoch, err, bound, fold_index,
                  loop_state, split_state, best_validation_loss, hist >>

\* run.py:783-786: current_loss = loss.item() / world_size (a fraction
\* << numerator, denominator >>), then running_loss_train(current_loss).
after_folds_running_mean(r) ==
  /\ r \in Ranks
  /\ pc[r] = "running_mean"
  /\ LET current_loss == << train_state[r].loss[1], world_size >>
     IN IF "running_loss_train" \in bound[r]
          THEN /\ train_state' =
                    [train_state EXCEPT
                       ![r].current_loss = << current_loss >>,
                       ![r].running_loss_train =
                          running_mean_call(@, current_loss),
                       ![r].running_loss =
                          << running_mean_result(
                               running_mean_call(
                                 train_state[r].running_loss_train,
                                 current_loss)) >>]
               /\ hist' = Log(r, << Event("loss_item", NoFold, NoEpoch),
                                    Event("running_loss_train", NoFold,
                                          NoEpoch) >>)
               /\ bound' = [bound EXCEPT ![r] = @ \cup {"current_loss",
                                                        "running_loss"}]
               /\ pc' = [pc EXCEPT ![r] = "pb_update"]
               /\ UNCHANGED err
          ELSE /\ train_state' =
                    [train_state EXCEPT ![r].current_loss = << current_loss >>]
               /\ Raise(r, "UnboundLocalError")
               /\ hist' = Log(r, << Event("loss_item", NoFold, NoEpoch) >>)
               /\ bound' = [bound EXCEPT ![r] = @ \cup {"current_loss"}]
  /\ UNCHANGED << config, steps_per_epoch, fold_index, loop_state,
                  split_state, best_validation_loss >>

\* run.py:789: pb.update(loss=running_loss).  "pb" is a local of train()
\* (bound only by "with ... as pb" at 823-825), and nothing before line
\* 789 binds it: the read raises.  The statements from line 793 to the
\* end of train() (second training loop, barrier 816, validation 819-886,
\* loader reset, metric log 894-909, barrier 912, writer.close, cleanup
\* 920) are therefore never reached by any worker.
after_folds_pb_update(r) ==
  /\ r \in Ranks
  /\ pc[r] = "pb_update"
  /\ Raise(r, "UnboundLocalError")
  /\ UNCHANGED << config, train_state, steps_per_epoch, bound, fold_index, loop_state,
                  split_state, best_validation_loss, hist >>

(***************************************************************************)
(* val_step (run.py:675-701): the prediction of sliding_window_inference   *)
(* and self.fixed_loss_functions["validation"](label, pred), the           *)
(* DiceCELoss of run.py:83-86.  The terms of the value it returns.         *)
(***************************************************************************)
val_step_as_training == compute_loss
val_step ==
  [ fn |-> "dice_ce",
    call |-> "label, prediction",
    primary |-> << 1, 1 >>,
    heads |-> << >>,
    vae |-> << 0, 1 >>,
    l2 |-> << 0, 1 >>,
    l1 |-> << 0, 1 >> ]

\* One call of val_step by worker r, on any batch of the validation
\* loader; value is the loss it returns.
validation_step(r) ==
  /\ r \in Ranks
  /\ pc[r] = "start"
  /\ train_state[r].terms = None
  /\ \E value \in LossValues :
       /\ train_state' = [train_state EXCEPT ![r].terms = << val_step >>,
                                             ![r].loss = << value >>]
       /\ hist' = Log(r, << Event("sliding_window_inference", NoFold,
                                  NoEpoch),
                            EventV("val_step", NoFold, NoEpoch, value) >>)
  /\ UNCHANGED << config, steps_per_epoch, pc, err, bound, fold_index,
                  loop_state, split_state, best_validation_loss >>

(***************************************************************************)
(* The running mean as rank 0 uses it, on its own: created (run.py:429),   *)
(* called with a value (786: running_loss = running_loss_train(            *)
(* current_loss)) and reset (908), in any order, at most MaxCalls          *)
(* operations.  The values fed are the even numbers 2, 4, ..., 2 * MaxFed. *)
(***************************************************************************)
FedValues == { 2 * v : v \in 1..MaxFed }

running_mean_new(r) ==
  /\ r \in Ranks
  /\ train_state[r].running_loss_train = None
  /\ train_state' = [train_state EXCEPT ![r].running_loss_train = RunningMean]
  /\ hist' = Log(r, << Event("RunningMean", NoFold, NoEpoch) >>)
  /\ UNCHANGED << config, steps_per_epoch, pc, err, bound, fold_index,
                  loop_state, split_state, best_validation_loss >>

running_mean_feed_last(r) ==
  /\ r \in Ranks
  /\ train_state[r].running_loss_train # None
  /\ Len(hist[r]) < MaxCalls
  /\ \E value \in FedValues :
       /\ train_state' =
            [train_state EXCEPT
               ![r].running_loss_train = running_mean_call(@, << value, 1 >>),
               ![r].running_loss = << << value, 1 >> >>]
       /\ hist' = Log(r, << EventV("running_loss_train", NoFold, NoEpoch,
                                   [fed |-> value,
                                    returned |-> << value, 1 >>]) >>)
  /\ UNCHANGED << config, steps_per_epoch, pc, err, bound, fold_index,
                  loop_state, split_state, best_validation_loss >>
running_mean_feed(r) ==
  /\ r \in Ranks
  /\ train_state[r].running_loss_train # None
  /\ Len(hist[r]) < MaxCalls
  /\ \E value \in FedValues :
       LET mean == running_mean_call(train_state[r].running_loss_train,
                                     << value, 1 >>)
       IN /\ train_state' =
               [train_state EXCEPT
                  ![r].running_loss_train = mean,
                  ![r].running_loss = << running_mean_result(mean) >>]
          /\ hist' = Log(r, << EventV("running_loss_train", NoFold, NoEpoch,
                                      [fed |-> value,
                                       returned |->
                                         running_mean_result(mean)]) >>)
  /\ UNCHANGED << config, steps_per_epoch, pc, err, bound, fold_index,
                  loop_state, split_state, best_validation_loss >>

running_mean_reset(r) ==
  /\ r \in Ranks
  /\ train_state[r].running_loss_train # None
  /\ Len(hist[r]) < MaxCalls
  /\ train_state' =
       [train_state EXCEPT ![r].running_loss_train = reset_states(@)]
  /\ hist' = Log(r, << Event("reset_states", NoFold, NoEpoch) >>)
  /\ UNCHANGED << config, steps_per_epoch, pc, err, bound, fold_index,
                  loop_state, split_state, best_validation_loss >>

(***************************************************************************)
(* run.py:889-920, the statements that follow the validation block: the    *)
(* loader resets, rank 0's metric log and accumulator resets, the barrier, *)
(* rank 0's writer.close() and cleanup().  No statement of 892-909 stands  *)
(* in a try block, so an exception of the writer propagates out of         *)
(* train().                                                                *)
(***************************************************************************)
\* What SummaryWriter.add_scalars / flush can do: both succeed, or one of
\* them raises (an event file that cannot be written).
SinkOutcomes == {"ok", "add_scalars", "flush"}

\* run.py:889-890: train_loader.reset(); validation_loader.reset().
loaders_reset(r) ==
  /\ r \in Ranks
  /\ pc[r] = "start"
  /\ hist' = Log(r, << Event("train_loader_reset", NoFold, NoEpoch),
                       Event("validation_loader_reset", NoFold, NoEpoch) >>)
  /\ pc' = [pc EXCEPT ![r] = IF r = 0 THEN "log_metrics" ELSE "log_barrier"]
  /\ UNCHANGED << config, train_state, steps_per_epoch, err, bound,
                  fold_index, loop_state, split_state, best_validation_loss >>

\* run.py:894-909 (rank 0): writer.add_scalars, writer.flush, then the two
\* reset_states calls.
log_metrics(r) ==
  /\ r \in Ranks
  /\ pc[r] = "log_metrics"
  /\ \E sink \in SinkOutcomes :
       CASE sink = "ok" ->
              /\ hist' = Log(r, << EventV("add_scalars", NoFold, NoEpoch,
                                          TRUE),
                                   EventV("flush", NoFold, NoEpoch, TRUE),
                                   Event("reset_states", NoFold, NoEpoch),
                                   Event("reset_states", NoFold, NoEpoch) >>)
              /\ train_state' =
                   [train_state EXCEPT
                      ![r].running_loss_train = reset_states(@),
                      ![r].running_loss_validation = reset_states(@)]
              /\ pc' = [pc EXCEPT ![r] = "log_barrier"]
              /\ UNCHANGED err
         [] sink = "add_scalars" ->
              /\ hist' = Log(r, << EventV("add_scalars", NoFold, NoEpoch,
                                          FALSE) >>)
              /\ Raise(r, "OSError")
              /\ UNCHANGED train_state
         [] sink = "flush" ->
              /\ hist' = Log(r, << EventV("add_scalars", NoFold, NoEpoch,
                                          TRUE),
                                   EventV("flush", NoFold, NoEpoch,
                                          FALSE) >>)
              /\ Raise(r, "OSError")
              /\ UNCHANGED train_state
  /\ UNCHANGED << config, steps_per_epoch, bound, fold_index, loop_state,
                  split_state, best_validation_loss >>

\* run.py:912: dist.barrier(): the call, and its return once every worker
\* has called it.
log_barrier(r) ==
  /\ r \in Ranks
  /\ pc[r] = "log_barrier"
  /\ hist' = Log(r, << Event("barrier", NoFold, NoEpoch) >>)
  /\ pc' = [pc EXCEPT ![r] = "log_barrier_wait"]
  /\ UNCHANGED << config, train_state, steps_per_epoch, err, bound,
                  fold_index, loop_state, split_state, best_validation_loss >>

log_barrier_return(r) ==
  /\ r \in Ranks
  /\ pc[r] = "log_barrier_wait"
  /\ \A q \in Ranks :
       CountOp(hist[q], "barrier") >= CountOp(hist[r], "barrier")
  /\ pc' = [pc EXCEPT ![r] = "writer_close"]
  /\ UNCHANGED << config, train_state, steps_per_epoch, err, bound,
                  fold_index, loop_state, split_state, best_validation_loss,
                  hist >>

\* run.py:916-920: rank 0 closes the writer; every worker leaves the
\* process group.
writer_close(r) ==
  /\ r \in Ranks
  /\ pc[r] = "writer_close"
  /\ hist' = Log(r, IF r = 0
                      THEN << Event("writer_close", NoFold, NoEpoch),
                              Event("cleanup", NoFold, NoEpoch) >>
                      ELSE << Event("cleanup", NoFold, NoEpoch) >>)
  /\ pc' = [pc EXCEPT ![r] = "returned"]
  /\ UNCHANGED << config, train_state, steps_per_epoch, err, bound,
                  fold_index, loop_state, split_state, best_validation_loss >>

\* run.py:753: alpha = self.boundary_loss_weighting_schedule(epoch), for
\* any epoch index of the run, at most MaxAlphaCalls times.
alpha_call(r) ==
  /\ r \in Ranks
  /\ Len(hist[r]) < MaxAlphaCalls
  /\ \E e \in 0..(mist_arguments.epochs - 1) :
       /\ epoch' = [epoch EXCEPT ![r] = e]
       /\ hist' = Log(r, << EventV("alpha", NoFold, e, AlphaSchedule(e)) >>)
  /\ bound' = [bound EXCEPT ![r] = @ \cup {"alpha"}]
  /\ UNCHANGED << config, train_state, steps_per_epoch, pc, err, fold_index,
                  epochs_started, step, patch_counter, split_state,
                  best_validation_loss >>

(***************************************************************************)
(* run.py:793-886, the training loop and the validation loop that follow   *)
(* pb.update: one pass of each loop body, for a single worker (its         *)
(* dist.reduce then returns at once with its own loss), at most            *)
(* MaxLoopSteps passes in all.                                             *)
(***************************************************************************)
\* run.py:793-813: next batch, alpha, train_step, learning_rate_scheduler
\* .step(), dist.reduce(loss, dst=0).
training_loop_step(r) ==
  /\ r \in Ranks
  /\ pc[r] = "start"
  /\ step[r] < MaxLoopSteps
  /\ \E finite \in BOOLEAN, value \in LossValues :
       /\ train_state' =
            [train_state EXCEPT ![r] = train_step(@, finite, value)]
       /\ hist' = Log(r, << Event("next_batch", NoFold, epoch[r]),
                            EventV("alpha", NoFold, epoch[r],
                                   AlphaSchedule(epoch[r])),
                            EventV("train_step", NoFold, epoch[r], value) >>
                           \o Events(train_step_calls(finite), NoFold,
                                     epoch[r])
                           \o << Event("lr_step", NoFold, epoch[r]),
                                 Event("reduce", NoFold, epoch[r]) >>)
  /\ step' = [step EXCEPT ![r] = @ + 1]
  /\ UNCHANGED << config, steps_per_epoch, pc, err, bound, fold_index,
                  epoch, epochs_started, patch_counter, split_state,
                  best_validation_loss >>

validation_loop_step_updating(r) ==
  /\ r \in Ranks
  /\ pc[r] = "start"
  /\ step[r] < MaxLoopSteps
  /\ \E value \in LossValues :
       LET mean == running_mean_call(train_state[r].running_loss_validation,
                                     << value, world_size >>)
       IN /\ train_state' =
               [train_state EXCEPT
                  ![r].terms = << val_step >>,
                  ![r].loss = << value >>,
                  ![r].params = @ + 1,
                  ![r].running_loss_validation = mean]
          /\ hist' = Log(r, << Event("next_batch", NoFold, epoch[r]),
                               Event("sliding_window_inference", NoFold,
                                     epoch[r]),
                               EventV("val_step", NoFold, epoch[r], value),
                               Event("reduce", NoFold, epoch[r]),
                               EventV("running_loss_validation", NoFold,
                                      epoch[r],
                                      running_mean_result(mean)) >>)
  /\ step' = [step EXCEPT ![r] = @ + 1]
  /\ UNCHANGED << config, steps_per_epoch, pc, err, bound, fold_index,
                  epoch, epochs_started, patch_counter, split_state,
                  best_validation_loss >>
\* run.py:822-848 (rank 0): next batch, val_step, dist.reduce(val_loss,
\* dst=0), current_val_loss = val_loss.item() / world_size, the validation
\* running mean.
validation_loop_step(r) ==
  /\ r \in Ranks
  /\ pc[r] = "start"
  /\ step[r] < MaxLoopSteps
  /\ \E value \in LossValues :
       LET mean == running_mean_call(train_state[r].running_loss_validation,
                                     << value, world_size >>)
       IN /\ train_state' =
               [train_state EXCEPT
                  ![r].terms = << val_step >>,
                  ![r].loss = << value >>,
                  ![r].running_loss_validation = mean]
          /\ hist' = Log(r, << Event("next_batch", NoFold, epoch[r]),
                               Event("sliding_window_inference", NoFold,
                                     epoch[r]),
                               EventV("val_step", NoFold, epoch[r], value),
                               Event("reduce", NoFold, epoch[r]),
                               EventV("running_loss_validation", NoFold,
                                      epoch[r],
                                      running_mean_result(mean)) >>)
  /\ step' = [step EXCEPT ![r] = @ + 1]
  /\ UNCHANGED << config, steps_per_epoch, pc, err, bound, fold_index,
                  epoch, epochs_started, patch_counter, split_state,
                  best_validation_loss >>

(***************************************************************************)
(* preprocess_dataset (preprocess.py:225-274), run by one process (rank    *)
(* 0 here).  Its local names are kept in bound, the row index in step.     *)
(***************************************************************************)
\* preprocess.py:226-252: the config is read, N4 bias correction on a
\* modality other than "mr" draws a warning, the table is read, the
\* output directories are made and the progress bar is chosen.
preprocess_open(r) ==
  /\ r \in Ranks
  /\ pc[r] = "start"
  /\ bound' = [bound EXCEPT ![r] = @ \cup {"config", "df", "progress"}]
  /\ hist' = Log(r, (IF config_json.modality # "mr"
                         /\ config_json.use_n4_bias_correction
                       THEN << Event("warn", NoFold, NoEpoch) >>
                       ELSE << >>)
                    \o << Event("read_csv", NoFold, NoEpoch),
                          Event("create_empty_dir", NoFold, NoEpoch),
                          Event("create_empty_dir", NoFold, NoEpoch),
                          Event("console_print", NoFold, NoEpoch) >>)
  /\ pc' = [pc EXCEPT ![r] = "rows"]
  /\ UNCHANGED << config, train_state, steps_per_epoch, err, fold_index,
                  loop_state, split_state, best_validation_loss >>

\* preprocess.py:140-157: what preprocess_example does about the
\* foreground of the first image: it computes the bounding box only when
\* it was given none, and crops when crop_to_fg is set.
preprocess_example(fg_bbox) ==
  IF config_json.crop_to_fg
    THEN (IF fg_bbox = None THEN << "get_fg_mask_bbox" >> ELSE << >>)
           \o << "crop_to_fg" >>
    ELSE << >>

\* preprocess.py:254-272: one pass of "for i in pb.track(range(len(df)))".
\* Reading the local fg_bboxes when no executed statement has bound it
\* raises UnboundLocalError.
preprocess_row(r) ==
  /\ r \in Ranks
  /\ pc[r] = "rows"
  /\ step[r] < Len(df)
  /\ LET i == step[r]
         loaded == IF config_json.crop_to_fg
                     THEN bound[r] \cup {"fg_bboxes"} ELSE bound[r]
         read == IF config_json.crop_to_fg
                   THEN << Event("read_fg_bboxes", NoFold, i) >> ELSE << >>
     IN IF args.no_preprocess
          THEN /\ hist' = Log(r, << Event("convert_nifti_to_numpy", NoFold,
                                          i) >>)
               /\ step' = [step EXCEPT ![r] = @ + 1]
               /\ UNCHANGED << bound, pc, err >>
          ELSE IF "fg_bboxes" \in loaded
            THEN /\ bound' = [bound EXCEPT ![r] = loaded]
                 /\ hist' = Log(r, read
                                   \o << Event("fg_bbox_lookup", NoFold, i) >>
                                   \o Events(preprocess_example(<< i >>),
                                             NoFold, i)
                                   \o << Event("preprocess_example",
                                               NoFold, i) >>)
                 /\ step' = [step EXCEPT ![r] = @ + 1]
                 /\ UNCHANGED << pc, err >>
            ELSE /\ Raise(r, "UnboundLocalError")
                 /\ hist' = Log(r, << Event("fg_bbox_lookup", NoFold, i) >>)
                 /\ UNCHANGED << bound, step >>
  /\ UNCHANGED << config, train_state, steps_per_epoch, fold_index, epoch,
                  epochs_started, patch_counter, split_state,
                  best_validation_loss >>

\* preprocess.py:273-274: after the last row the config is written back.
write_config(r) ==
  /\ r \in Ranks
  /\ pc[r] = "rows"
  /\ step[r] = Len(df)
  /\ hist' = Log(r, << Event("json_dump", NoFold, NoEpoch) >>)
  /\ pc' = [pc EXCEPT ![r] = "returned"]
  /\ UNCHANGED << config, train_state, steps_per_epoch, err, bound,
                  fold_index, loop_state, split_state, best_validation_loss >>

\* Every rank a run of at most MaxWorld workers can have.
AllRanks == 0..(MaxWorld - 1)

Next ==
  \E r \in AllRanks :
    \/ setup(r)
    \/ setup_return(r)
    \/ announce(r)
    \/ fold_head(r)
    \/ split_data(r)
    \/ check_validation_size(r)
    \/ build_loaders(r)
    \/ get_loss(r)
    \/ build_model(r)
    \/ epoch_head(r)
    \/ dump_patch(r)
    \/ epoch_tail(r)
    \/ set_trace(r)
    \/ after_folds_train_step(r)
    \/ after_folds_lr_step(r)
    \/ reduce_call(r)
    \/ reduce_return(r)
    \/ after_folds_running_mean(r)
    \/ after_folds_pb_update(r)

Spec == Init /\ [][Next]_vars

PathsSpec == PathsInit /\ [][Next]_vars

StepSpec == StepInit /\ [][Next]_vars

SplitSpec == SplitInit /\ [][Next]_vars

(***************************************************************************)
(* val_step as a function of the run's configuration: no statement that    *)
(* train() reaches calls it (its calls are at run.py:826-886), so it is    *)
(* applied here to every configuration, outside the driver.                *)
(***************************************************************************)
ValInit ==
  Start(1..MaxWorld, StepArguments,
        { [i \in 1..MaxIds |-> (i - 1) % NumFoldLabels] },
        {<< MaxSteps >>}, {NoMissing})

ValNext == \E r \in AllRanks : validation_step(r)

ValSpec == ValInit /\ [][ValNext]_vars

\* One worker and its running mean.
MeanInit ==
  Start({1},
        [ folds : {<< 0 >>},
          epochs : {1},
          val_percent : ValPercents,
          batch_size : BatchSizes,
          loss : {"dice_ce"},
          use_dtms : {FALSE},
          amp : {FALSE},
          clip_norm : {FALSE},
          deep_supervision : {FALSE},
          deep_supervision_heads : {0},
          vae_reg : {FALSE},
          l2_reg : {FALSE},
          l1_reg : {FALSE},
          seed_val : {0},
          boundary_loss_schedule : {"constant"},
          loss_schedule_constant : {<< 1, 2 >>},
          linear_schedule_pause : {0},
          step_schedule_step_length : {1} ],
        { [i \in 1..MaxIds |-> (i - 1) % NumFoldLabels] },
        {<< MaxSteps >>}, {NoMissing})

MeanNext ==
  \E r \in AllRanks :
    \/ running_mean_new(r)
    \/ running_mean_feed(r)
    \/ running_mean_reset(r)

MeanSpec == MeanInit /\ [][MeanNext]_vars

\* The names rank 0 reads in 892-909, and those every worker reads in
\* 889-890.
LogNames(r) ==
  {"train_loader", "validation_loader"}
    \cup (IF r = 0 THEN {"writer", "running_loss", "running_val_loss",
                         "running_loss_train", "running_loss_validation"}
                   ELSE {})

\* The workers at line 889, the last epoch of the last fold behind them:
\* rank 0 holds its writer and two running means into which up to MaxSteps
\* values were folded.
LogInit ==
  /\ world_size \in 1..MaxWorld
  /\ mist_arguments \in
       [ folds : FoldLists,
         epochs : 1..MaxEpochs,
         val_percent : ValPercents,
         batch_size : BatchSizes,
         loss : {"dice_ce"},
         use_dtms : {FALSE},
         amp : {FALSE},
         clip_norm : {FALSE},
         deep_supervision : {FALSE},
         deep_supervision_heads : {0},
         vae_reg : {FALSE},
         l2_reg : {FALSE},
         l1_reg : {FALSE},
         seed_val : {0},
         boundary_loss_schedule : {"constant"},
         loss_schedule_constant : {<< 1, 2 >>},
         linear_schedule_pause : {0},
         step_schedule_step_length : {1} ]
  /\ df = [i \in 1..MaxIds |-> (i - 1) % NumFoldLabels]
  /\ missing_files = NoMissing
  /\ args = NoArgs
  /\ config_json = NoConfig
  /\ steps_per_epoch = [r \in Ranks |-> << MaxSteps >>]
  /\ pc = [r \in Ranks |-> "start"]
  /\ err = [r \in Ranks |-> ""]
  /\ bound = [r \in Ranks |-> LogNames(r)]
  /\ fold_index = [r \in Ranks |-> Len(mist_arguments.folds)]
  /\ epoch = [r \in Ranks |-> mist_arguments.epochs - 1]
  /\ epochs_started = [r \in Ranks |-> mist_arguments.epochs]
  /\ step = [r \in Ranks |-> 0]
  /\ patch_counter = [r \in Ranks |-> 0]
  /\ n_train = [r \in Ranks |-> 0]
  /\ n_val = [r \in Ranks |-> 0]
  /\ val_steps = [r \in Ranks |-> 0]
  /\ best_validation_loss = [r \in Ranks |-> "unset"]
  /\ \E n \in 0..MaxSteps, v \in LossValues :
       LET mean == << [count |-> n, sum |-> << n * v, 1 >>] >>
       IN train_state =
            [r \in Ranks |->
               IF r = 0
                 THEN [NoTrainState EXCEPT
                         !.running_loss_train = mean,
                         !.running_loss_validation = mean,
                         !.running_loss = IF n = 0 THEN None
                                          ELSE << << v, 1 >> >>]
                 ELSE NoTrainState]
  /\ hist = [r \in Ranks |-> << >>]

LogNext ==
  \E r \in AllRanks :
    \/ loaders_reset(r)
    \/ log_metrics(r)
    \/ log_barrier(r)
    \/ log_barrier_return(r)
    \/ writer_close(r)

LogSpec == LogInit /\ [][LogNext]_vars

\* One worker and the schedule of its run: every variant, a constant of
\* 0, 1/2 or 1, a pause of 0 to 2 epochs, a step length of 1 or 2 epochs.
AlphaInit ==
  Start({1},
        [ folds : {<< 0 >>},
          epochs : 1..MaxScheduleEpochs,
          val_percent : ValPercents,
          batch_size : BatchSizes,
          loss : {"bl"},
          use_dtms : {TRUE},
          amp : {FALSE},
          clip_norm : {FALSE},
          deep_supervision : {FALSE},
          deep_supervision_heads : {0},
          vae_reg : {FALSE},
          l2_reg : {FALSE},
          l1_reg : {FALSE},
          seed_val : {0},
          boundary_loss_schedule : Schedules,
          loss_schedule_constant : {<< 0, 1 >>, << 1, 2 >>, << 1, 1 >>},
          linear_schedule_pause : 0..2,
          step_schedule_step_length : 1..2 ],
        { [i \in 1..MaxIds |-> (i - 1) % NumFoldLabels] },
        {<< MaxSteps >>}, {NoMissing})

AlphaNext == \E r \in AllRanks : alpha_call(r)

AlphaSpec == AlphaInit /\ [][AlphaNext]_vars

\* One worker at line 793, its model, optimizer and (under AMP) scaler
\* built and its running means empty.
LoopInit ==
  /\ world_size = 1
  /\ mist_arguments \in
       [ folds : {<< 0 >>},
         epochs : {1},
         val_percent : ValPercents,
         batch_size : BatchSizes,
         loss : {"dice_ce"},
         use_dtms : {FALSE},
         amp : BOOLEAN,
         clip_norm : BOOLEAN,
         deep_supervision : {FALSE},
         deep_supervision_heads : {0},
         vae_reg : {FALSE},
         l2_reg : {FALSE},
         l1_reg : {FALSE},
         seed_val : {0},
         boundary_loss_schedule : {"constant"},
         loss_schedule_constant : {<< 1, 2 >>},
         linear_schedule_pause : {0},
         step_schedule_step_length : {1} ]
  /\ df = [i \in 1..MaxIds |-> (i - 1) % NumFoldLabels]
  /\ missing_files = NoMissing
  /\ args = NoArgs
  /\ config_json = NoConfig
  /\ steps_per_epoch = [r \in Ranks |-> << MaxSteps >>]
  /\ pc = [r \in Ranks |-> "start"]
  /\ err = [r \in Ranks |-> ""]
  /\ bound = [r \in Ranks |-> LogNames(r) \cup {"model", "optimizer",
                                                "epoch"}]
  /\ fold_index = [r \in Ranks |-> 1]
  /\ epoch = [r \in Ranks |-> 0]
  /\ epochs_started = [r \in Ranks |-> 1]
  /\ step = [r \in Ranks |-> 0]
  /\ patch_counter = [r \in Ranks |-> 0]
  /\ n_train = [r \in Ranks |-> 0]
  /\ n_val = [r \in Ranks |-> 0]
  /\ val_steps = [r \in Ranks |-> 0]
  /\ best_validation_loss = [r \in Ranks |-> "inf"]
  /\ train_state =
       [r \in Ranks |->
          [NoTrainState EXCEPT !.scale = GradScaler,
                               !.running_loss_train = RunningMean,
                               !.running_loss_validation = RunningMean]]
  /\ hist = [r \in Ranks |-> << >>]

LoopNext ==
  \E r \in AllRanks :
    \/ training_loop_step(r)
    \/ validation_loop_step(r)

LoopSpec == LoopInit /\ [][LoopNext]_vars

\* Runs of one fold whose validation part is a half or three quarters of
\* the fold's training ids, so that its size need not be a multiple of
\* world_size.
ValSizeInit ==
  Start(1..MaxWorld,
        [ folds : {<< 0 >>, << MaxFolds >>},
          epochs : {1},
          val_percent : {50, 75},
          batch_size : BatchSizes,
          loss : {"dice_ce"},
          use_dtms : {FALSE},
          amp : {FALSE},
          clip_norm : {FALSE},
          deep_supervision : {FALSE},
          deep_supervision_heads : {0},
          vae_reg : {FALSE},
          l2_reg : {FALSE},
          l1_reg : {FALSE},
          seed_val : {0},
          boundary_loss_schedule : {"constant"},
          loss_schedule_constant : {<< 1, 2 >>},
          linear_schedule_pause : {0},
          step_schedule_step_length : {1} ],
        Tables, {<< MaxSteps >>}, {NoMissing})

ValSizeSpec == ValSizeInit /\ [][Next]_vars

\* preprocess_dataset on every table, with every combination of the
\* no_preprocess argument and the crop_to_fg, modality and N4 settings of
\* the config.
PreprocessInit ==
  /\ world_size = 1
  /\ mist_arguments \in
       [ folds : {<< 0 >>},
         epochs : {1},
         val_percent : ValPercents,
         batch_size : BatchSizes,
         loss : {"dice_ce"},
         use_dtms : {FALSE},
         amp : {FALSE},
         clip_norm : {FALSE},
         deep_supervision : {FALSE},
         deep_supervision_heads : {0},
         vae_reg : {FALSE},
         l2_reg : {FALSE},
         l1_reg : {FALSE},
         seed_val : {0},
         boundary_loss_schedule : {"constant"},
         loss_schedule_constant : {<< 1, 2 >>},
         linear_schedule_pause : {0},
         step_schedule_step_length : {1} ]
  /\ df \in Tables
  /\ missing_files = NoMissing
  /\ args \in [ no_preprocess : BOOLEAN ]
  /\ config_json \in [ crop_to_fg : BOOLEAN, modality : {"ct", "mr"},
                       use_n4_bias_correction : BOOLEAN ]
  /\ steps_per_epoch = [r \in Ranks |-> << MaxSteps >>]
  /\ pc = [r \in Ranks |-> "start"]
  /\ err = [r \in Ranks |-> ""]
  /\ bound = [r \in Ranks |-> {}]
  /\ fold_index = [r \in Ranks |-> 0]
  /\ epoch = [r \in Ranks |-> 0]
  /\ epochs_started = [r \in Ranks |-> 0]
  /\ step = [r \in Ranks |-> 0]
  /\ patch_counter = [r \in Ranks |-> 0]
  /\ n_train = [r \in Ranks |-> 0]
  /\ n_val = [r \in Ranks |-> 0]
  /\ val_steps = [r \in Ranks |-> 0]
  /\ best_validation_loss = [r \in Ranks |-> "unset"]
  /\ train_state = [r \in Ranks |-> NoTrainState]
  /\ hist = [r \in Ranks |-> << >>]

PreprocessNext ==
  \E r \in AllRanks :
    \/ preprocess_open(r)
    \/ preprocess_row(r)
    \/ write_config(r)

PreprocessSpec == PreprocessInit /\ [][PreprocessNext]_vars

(***************************************************************************)
(* Vocabulary of the properties.                                           *)
(***************************************************************************)

\* The errors a run can meet from its inputs and collaborators: the fatal
\* errors of the split and of the configuration checks, and the debugger
\* being quit.  UnboundLocalError is not among them: train() raises it on
\* its own on every run that gets past the fold loop.
InputErrors == {"InsufficientValidationSetError", "ValueError", "BdbQuit"}
NoInputError == \A q \in Ranks : err[q] \notin InputErrors

\* The worker has left train() (the only way out that is reached is a raise).
Stopped(r) == pc[r] = "crashed"

\* The worker is inside the epoch loop of its current fold.
InEpochLoop(r) == pc[r] \in {"epoch_head", "dump_loop", "epoch_tail"}

\* The operations of worker r that belong to epoch e of fold f and come
\* before position i of its history.
EpochEvents(r, f, e, i) ==
  SelectSeq(SubSeq(hist[r], 1, i - 1),
            LAMBDA ev : ev.fold = f /\ ev.epoch = e)

\* The positions at which worker r completed an epoch.
EpochEnds(r) == { i \in DOMAIN hist[r] : hist[r][i].op = "epoch_end" }

Ops(h) == { h[i].op : i \in DOMAIN h }

\* The phase of the epoch an operation belongs to ("" for bookkeeping).
PhaseOf(op) ==
  CASE op \in {"next_batch", "train_step", "lr_step"} -> "TRAIN"
    [] op = "barrier" -> "BARRIER"
    [] op = "val_step" -> "VALIDATE"
    [] op \in {"save_checkpoint", "no_improvement", "log_metrics"}
         -> "LOG_AND_CHECKPOINT"
    [] OTHER -> ""

\* The phases of a sequence of operations, in order of first occurrence.
RECURSIVE FirstPhases(_, _)
FirstPhases(h, seen) ==
  IF h = << >> THEN << >>
  ELSE LET ph == PhaseOf(Head(h).op)
       IN IF ph = "" \/ ph \in seen
            THEN FirstPhases(Tail(h), seen)
            ELSE << ph >> \o FirstPhases(Tail(h), seen \cup {ph})

\* The collective calls of a worker, in order.
Collectives(r) ==
  SelectSeq(hist[r], LAMBDA ev : ev.op \in {"join", "reduce", "barrier"})

IsPrefix(s, t) == Len(s) <= Len(t) /\ SubSeq(t, 1, Len(s)) = s

(***************************************************************************)
(* C1: for every worker, every completed epoch of every fold went through  *)
(* the phases TRAIN, BARRIER, VALIDATE, METRIC_SYNC and, on rank 0,        *)
(* LOG_AND_CHECKPOINT, in this order and none skipped, before the next     *)
(* epoch began.                                                            *)
(***************************************************************************)
C1_EpochPhasesInOrder ==
  \A r \in Ranks : \A i \in EpochEnds(r) :
    LET evs == EpochEvents(r, hist[r][i].fold, hist[r][i].epoch, i)
    IN /\ FirstPhases(evs, {}) =
            IF r = 0
              THEN << "TRAIN", "BARRIER", "VALIDATE", "LOG_AND_CHECKPOINT" >>
              ELSE << "TRAIN", "BARRIER", "VALIDATE" >>
       \* METRIC_SYNC: the validation losses were reduced.
       /\ \E j, k \in DOMAIN evs :
            j < k /\ evs[j].op = "val_step" /\ evs[k].op = "reduce"

C3_BarrierBeforeValidation ==
  /\ \A r, q \in Ranks : \A i \in DOMAIN hist[r] :
       hist[r][i].op = "val_step" =>
         \E j \in DOMAIN hist[q] :
           /\ hist[q][j].op = "barrier"
           /\ hist[q][j].fold = hist[r][i].fold
           /\ hist[q][j].epoch = hist[r][i].epoch
  /\ \A r \in Ranks : \A i \in EpochEnds(r) :
       LET evs == EpochEvents(r, hist[r][i].fold, hist[r][i].epoch, i)
       IN \E j, k \in DOMAIN evs :
            j < k /\ evs[j].op = "barrier" /\ evs[k].op = "val_step"

(***************************************************************************)
(* C4: no worker starts training work of epoch e+1 before rank 0 has done  *)
(* the log-and-checkpoint step of epoch e, and in every epoch a barrier    *)
(* follows the validation sub-loop.                                        *)
(***************************************************************************)
C4_BarrierAfterValidation ==
  /\ \A q \in Ranks : \A i \in DOMAIN hist[q] :
       (hist[q][i].op \in {"next_batch", "train_step"}
          /\ hist[q][i].epoch # NoEpoch /\ hist[q][i].epoch > 0)
         => \E j \in DOMAIN hist[0] :
              /\ hist[0][j].op \in {"save_checkpoint", "no_improvement"}
              /\ hist[0][j].fold = hist[q][i].fold
              /\ hist[0][j].epoch = hist[q][i].epoch - 1
  /\ \A r \in Ranks : \A i \in EpochEnds(r) :
       LET evs == EpochEvents(r, hist[r][i].fold, hist[r][i].epoch, i)
       IN \E j, k \in DOMAIN evs :
            j < k /\ evs[j].op = "val_step" /\ evs[k].op = "barrier"

(***************************************************************************)
(* C5: every epoch that rank 0 completes ends with the comparison of the   *)
(* epoch's validation mean (v) with the fold's best so far: the checkpoint *)
(* is written and the best value updated exactly when the mean is          *)
(* strictly lower than every mean saved earlier in the fold (the best      *)
(* starts at +infinity).                                                   *)
(***************************************************************************)
C5_CheckpointIffStrictlyLower ==
  \A i \in EpochEnds(0) :
    \E j \in 1..(i - 1) :
      LET d == hist[0][j]
      IN /\ d.op \in {"save_checkpoint", "no_improvement"}
         /\ d.fold = hist[0][i].fold
         /\ d.epoch = hist[0][i].epoch
         /\ (d.op = "save_checkpoint") <=>
              \A k \in 1..(j - 1) :
                (hist[0][k].op = "save_checkpoint"
                   /\ hist[0][k].fold = d.fold) => d.v < hist[0][k].v

(***************************************************************************)
(* C6: checkpoint writes, metric-sink writes and console output are made   *)
(* by rank 0 only, and a worker of another rank that ran train() to its    *)
(* end without an input error has performed every training step,           *)
(* validation step and reduce call that rank 0 has performed.              *)
(***************************************************************************)
C6_OnlyRankZeroWrites ==
  \A r \in Ranks \ {0} :
    /\ Ops(hist[r]) \cap {"console_print", "save_checkpoint",
                          "no_improvement", "log_metrics"} = {}
    /\ (Stopped(r) /\ err[r] \notin InputErrors) =>
         \A op \in {"train_step", "val_step", "reduce"} :
           CountOp(hist[r], op) >= CountOp(hist[0], op)

(***************************************************************************)
(* C7: in every completed epoch of every fold, every worker (rank 0        *)
(* included) has made exactly steps_per_epoch training steps, each on one  *)
(* batch pulled from the training stream.                                  *)
(***************************************************************************)
C7_StepsPerEpochExact ==
  \A r \in Ranks : \A i \in EpochEnds(r) :
    LET evs == EpochEvents(r, hist[r][i].fold, hist[r][i].epoch, i)
    IN /\ CountOp(evs, "train_step") = steps_per_epoch[r][1]
       /\ CountOp(evs, "next_batch") = steps_per_epoch[r][1]

(***************************************************************************)
(* C8: in a run without input errors every worker runs to completion: it   *)
(* never waits on anything but a collective or a data-stream read (so      *)
(* never at a debugger prompt), and when it leaves train() it has          *)
(* completed every fold and left the communication group.                  *)
(***************************************************************************)
C8_WorkersTerminate ==
  NoInputError =>
    \A r \in Ranks :
      /\ pc[r] # "set_trace"
      /\ Stopped(r) => /\ err[r] = ""
                       /\ CountOp(hist[r], "leave") = 1

(***************************************************************************)
(* C9: after the final epoch of a fold every worker calls barrier()        *)
(* before it begins the next fold's split, and no worker is in fold f+1    *)
(* while another worker is still inside the epoch loop of fold f.          *)
(***************************************************************************)
C9_BarrierBetweenFolds ==
  /\ \A r \in Ranks : \A i \in DOMAIN hist[r] :
       (hist[r][i].op = "split" /\ hist[r][i].fold # folds[1]) =>
         \E j \in 1..(i - 1) :
           /\ hist[r][j].op = "barrier"
           /\ \A k \in EpochEnds(r) : k < i => k < j
  /\ \A r, q \in Ranks :
       fold_index[r] > fold_index[q] => ~InEpochLoop(q)

(***************************************************************************)
(* C10: a worker that joined the process group and has left train(), on    *)
(* whatever path (a fatal error included), has called cleanup() exactly    *)
(* once; no worker calls it more often than it joined.                     *)
(***************************************************************************)
C10_LeaveOncePerJoin ==
  \A r \in Ranks :
    /\ CountOp(hist[r], "leave") <= CountOp(hist[r], "join")
    /\ Stopped(r) => CountOp(hist[r], "leave") = CountOp(hist[r], "join")

(***************************************************************************)
(* What a fold constructs before its first epoch (run.py:316-425).         *)
(***************************************************************************)
LoaderOps == {"train_loader", "validation_loader"}
ConstructionOps ==
  LoaderOps \cup {"get_loss", "model", "optimizer",
                  "learning_rate_scheduler", "grad_scaler"}

\* The operations worker r has performed for fold label f.
FoldOps(r, f) == { hist[r][i].op : i \in { j \in DOMAIN hist[r] :
                                            hist[r][j].fold = f } }

(***************************************************************************)
(* C11: for every fold, the worker raises InsufficientValidationSetError   *)
(* exactly when the validation subset of the split has fewer elements      *)
(* than world_size: the step that leaves the check raises it if and only   *)
(* if len(val_images) < world_size (not at equality, and at one less),     *)
(* and no other step raises it.                                            *)
(***************************************************************************)
C11_InsufficientIffSmaller ==
  [][\A r \in AllRanks : r \in Ranks =>
       /\ (pc[r] = "check_val" /\ pc'[r] # "check_val") =>
            ((err'[r] = "InsufficientValidationSetError")
               <=> n_val[r] < world_size)
       /\ (err[r] # err'[r] /\ err'[r] = "InsufficientValidationSetError")
            => pc[r] = "check_val"]_vars

\* A worker was stopped by the error with a validation subset one smaller
\* than world_size.
C11_Witness ==
  \E r \in Ranks : /\ err[r] = "InsufficientValidationSetError"
                   /\ n_val[r] = world_size - 1

(***************************************************************************)
(* C12: a worker stopped by InsufficientValidationSetError has             *)
(* constructed nothing for that fold: no training or validation loader,    *)
(* no loss, model, optimizer, learning-rate schedule or gradient scaler.   *)
(***************************************************************************)
C12_InsufficientBeforeConstruction ==
  \A r \in Ranks :
    err[r] = "InsufficientValidationSetError" =>
      /\ FoldOps(r, fold(r)) \cap ConstructionOps = {}
      /\ train_state[r].scale = None

\* A worker was stopped by the error in its first fold after the split.
C12_Witness ==
  \E r \in Ranks : /\ err[r] = "InsufficientValidationSetError"
                   /\ "split" \in FoldOps(r, fold(r))
                   /\ n_val[r] < world_size

(***************************************************************************)
(* C13: in a run with a boundary-based loss (bl, hdl, gsl) and distance    *)
(* maps not enabled, no worker builds a loader or a model or makes a       *)
(* training step: the configuration error comes first.                     *)
(***************************************************************************)
C13_BoundaryLossFailsFirst ==
  (mist_arguments.loss \in BoundaryLosses /\ ~mist_arguments.use_dtms) =>
    \A r \in Ranks :
      Ops(hist[r]) \cap (LoaderOps \cup {"model", "train_step"}) = {}

(***************************************************************************)
(* C14: in a run with distance maps enabled, a worker whose lists of       *)
(* training images, labels and distance maps of a fold differ in length    *)
(* does not train in that fold (it starts no epoch of it) and makes no     *)
(* training step afterwards: the run fails before.                         *)
(***************************************************************************)
PathCounts(f) == { get_numpy_file_paths_list(d, train_ids(f)) : d \in Folders }

C14_MisalignedCountsFail ==
  mist_arguments.use_dtms =>
    \A r \in Ranks : \A i \in DOMAIN hist[r] :
      (hist[r][i].op = "split" /\ Cardinality(PathCounts(hist[r][i].fold)) > 1)
        => \A j \in DOMAIN hist[r] :
             j > i => /\ hist[r][j].op # "train_step"
                      /\ ~(hist[r][j].op = "epoch_begin"
                             /\ hist[r][j].fold = hist[r][i].fold)

(***************************************************************************)
(* The calls of the training steps a worker has made, in order.            *)
(***************************************************************************)
ScalerCalls == {"autocast_forward", "scale_backward", "unscale",
                "scaler_step", "scaler_update"}
StepCalls == ScalerCalls \cup {"zero_grad", "forward", "backward",
                               "clip_grad_norm", "optimizer_step"}
IsStepCall(e) == e.op \in StepCalls
CallsOf(r) ==
  LET calls == SelectSeq(hist[r], IsStepCall)
  IN [i \in DOMAIN calls |-> calls[i].op]

\* Worker r makes a training step in this transition.
TrainStepTaken(r) == pc[r] = "after_folds" /\ pc'[r] = "lr_step"

(***************************************************************************)
(* C15: with mixed precision enabled, a training step whose gradients are  *)
(* not all finite leaves the parameters as they were, makes the scale      *)
(* strictly smaller and raises nothing; a step whose gradients are all     *)
(* finite applies one optimizer update and does not make the scale         *)
(* smaller.                                                                *)
(***************************************************************************)
C15_NonFiniteStepSkipped ==
  [][\A r \in AllRanks :
       (r \in Ranks /\ mist_arguments.amp /\ TrainStepTaken(r)) =>
         IF train_state'[r].found_inf
           THEN /\ train_state'[r].params = train_state[r].params
                /\ train_state'[r].scale[1] < train_state[r].scale[1]
                /\ err'[r] = ""
           ELSE /\ train_state'[r].params = train_state[r].params + 1
                /\ train_state'[r].scale[1] >= train_state[r].scale[1]]_vars

\* A worker under AMP has made a step with a non-finite gradient.
C15_Witness ==
  \E r \in Ranks : /\ mist_arguments.amp
                   /\ "scaler_update" \in Ops(hist[r])
                   /\ train_state[r].found_inf
                   /\ train_state[r].scale[1] < InitScale

(***************************************************************************)
(* C16: with AMP disabled no worker ever has a gradient scaler or a scale  *)
(* value, no call of a training step goes through a scaler or autocast,    *)
(* and a training step is exactly: zero the gradients, forward pass in     *)
(* standard precision, backward on the loss itself, gradient clipping if   *)
(* enabled, optimizer step.                                                *)
(***************************************************************************)
C16_NoScaleWithoutAmp ==
  ~mist_arguments.amp =>
    \A r \in Ranks :
      /\ "amp_gradient_scaler" \notin bound[r]
      /\ "grad_scaler" \notin Ops(hist[r])
      /\ train_state[r].scale = None
      /\ Ops(hist[r]) \cap ScalerCalls = {}
      /\ "train_step" \in Ops(hist[r]) =>
           CallsOf(r) = IF mist_arguments.clip_norm
                          THEN << "zero_grad", "forward", "backward",
                                  "clip_grad_norm", "optimizer_step" >>
                          ELSE << "zero_grad", "forward", "backward",
                                  "optimizer_step" >>

\* A worker without AMP has made a training step after its second fold.
C16_Witness ==
  /\ ~mist_arguments.amp
  /\ \E r \in Ranks : /\ "optimizer_step" \in Ops(hist[r])
                      /\ train_state[r].params = 1
                      /\ fold_index[r] = 2

(***************************************************************************)
(* Powers of two, and the weights of the last loss a worker computed.      *)
(***************************************************************************)
RECURSIVE Pow2(_)
Pow2(n) == IF n = 0 THEN 1 ELSE 2 * Pow2(n - 1)

RECURSIVE FracSum(_)
FracSum(ws) ==
  IF ws = << >> THEN << 0, 1 >> ELSE FracAdd(Head(ws), FracSum(Tail(ws)))

\* Worker r has computed a loss with deep supervision enabled.
SupervisedLoss(r) ==
  /\ mist_arguments.deep_supervision
  /\ train_state[r].terms # None

(***************************************************************************)
(* C17: with deep supervision enabled and H auxiliary heads the loss,      *)
(* before the VAE and parameter-norm terms, is                             *)
(* (L0 + sum of 0.5^(k+1) L_k, k in 0..H-1) * 1/(2 - 2^-(H+1)): the        *)
(* weight of the primary loss is 2^(H+1) / (2^(H+2) - 1) and the weight    *)
(* of head k is 2^(H-k) / (2^(H+2) - 1), and there are H head terms.       *)
(***************************************************************************)
C17_DeepSupervisionWeights ==
  \A r \in Ranks :
    SupervisedLoss(r) =>
      LET H == mist_arguments.deep_supervision_heads
          terms == train_state[r].terms[1]
      IN /\ FracEq(terms.primary, << Pow2(H + 1), Pow2(H + 2) - 1 >>)
         /\ Len(terms.heads) = H
         /\ \A k \in 0..(H - 1) :
              FracEq(terms.heads[k + 1], << Pow2(H - k), Pow2(H + 2) - 1 >>)

\* A worker has computed the loss of a model with three auxiliary heads.
C17_Witness ==
  \E r \in Ranks : /\ SupervisedLoss(r)
                   /\ Len(train_state[r].terms[1].heads) = 3

(***************************************************************************)
(* C18: for every number of auxiliary heads, the weights of the primary    *)
(* term and of the head terms of a deep-supervision loss, after the        *)
(* rescaling by c_norm, sum to exactly 1.                                  *)
(***************************************************************************)
C18_WeightsSumToOne ==
  \A r \in Ranks :
    SupervisedLoss(r) =>
      LET terms == train_state[r].terms[1]
      IN FracEq(FracAdd(terms.primary, FracSum(terms.heads)), << 1, 1 >>)

(***************************************************************************)
(* C19: whatever the loss configuration of the run, the value a            *)
(* validation step returns is one loss between the label and the           *)
(* sliding-window prediction, with weight 1: it has no deep-supervision    *)
(* term, no VAE term, no L1 or L2 term, and neither a distance map nor     *)
(* alpha enters the loss call.                                             *)
(***************************************************************************)
C19_ValidationPrimaryOnly ==
  \A r \in Ranks :
    "val_step" \in Ops(hist[r]) =>
      LET terms == train_state[r].terms[1]
      IN /\ FracEq(terms.primary, << 1, 1 >>)
         /\ terms.heads = << >>
         /\ FracEq(terms.vae, << 0, 1 >>)
         /\ FracEq(terms.l2, << 0, 1 >>)
         /\ FracEq(terms.l1, << 0, 1 >>)
         /\ terms.call = "label, prediction"

\* A validation step was made in a run whose training loss has every
\* other term: boundary loss with distance maps, deep supervision, VAE,
\* L2 and L1 penalties.
C19_Witness ==
  \E r \in Ranks :
    /\ "val_step" \in Ops(hist[r])
    /\ hist[r][1].op = "sliding_window_inference"
    /\ mist_arguments.loss \in BoundaryLosses /\ mist_arguments.use_dtms
    /\ mist_arguments.deep_supervision
    /\ mist_arguments.deep_supervision_heads > 0
    /\ mist_arguments.vae_reg /\ mist_arguments.l2_reg /\ mist_arguments.l1_reg

(***************************************************************************)
(* The loss of the training step of worker q, and the sum over workers.    *)
(***************************************************************************)
StepLoss(q) ==
  hist[q][CHOOSE i \in DOMAIN hist[q] : hist[q][i].op = "train_step"].v

RECURSIVE SumStepLoss(_)
SumStepLoss(S) ==
  IF S = {} THEN 0
  ELSE LET q == CHOOSE x \in S : TRUE
       IN StepLoss(q) + SumStepLoss(S \ {q})

\* No worker will take another step: each one has stopped, or waits in a
\* reduce that a stopped worker has not entered.
RunOver ==
  \A r \in Ranks :
    \/ Stopped(r)
    \/ /\ pc[r] = "reduce_wait"
       /\ \E q \in Ranks : /\ Stopped(q)
                           /\ CountOp(hist[q], "reduce")
                                < CountOp(hist[r], "reduce")

(***************************************************************************)
(* C20: the loss of every training step rank 0 makes is folded into its    *)
(* running mean as the sum of all workers' losses of that step divided by  *)
(* world_size (in a run without input errors, by the time the run is       *)
(* over), and no worker of rank other than 0 reads the loss value after    *)
(* the reduce call.                                                        *)
(***************************************************************************)
C20_RankZeroFoldsReducedMean ==
  /\ \A r \in Ranks : r # 0 => "loss_item" \notin Ops(hist[r])
  /\ "running_loss_train" \in Ops(hist[0]) =>
       /\ \A q \in Ranks : "train_step" \in Ops(hist[q])
       /\ FracEq(train_state[0].current_loss[1],
                 << SumStepLoss(Ranks), world_size >>)
  /\ (NoInputError /\ RunOver) =>
       CountOp(hist[0], "running_loss_train") = CountOp(hist[0], "train_step")

(***************************************************************************)
(* C21: when rank 0 starts the epochs of a fold the best validation loss   *)
(* is +infinity, and the first epoch of every fold that rank 0 completes   *)
(* (its validation mean is finite) has written the fold's checkpoint and   *)
(* moved the best value away from +infinity.                               *)
(***************************************************************************)
C21_FirstEpochWritesCheckpoint ==
  /\ (0 \in Ranks /\ pc[0] = "epoch_head" /\ epochs_started[0] = 0)
       => best_validation_loss[0] = "inf"
  /\ \A i \in EpochEnds(0) :
       hist[0][i].epoch = 0 =>
         /\ \E j \in 1..(i - 1) : /\ hist[0][j].op = "save_checkpoint"
                                  /\ hist[0][j].fold = hist[0][i].fold
                                  /\ hist[0][j].epoch = 0
         /\ (fold(0) = hist[0][i].fold /\ InEpochLoop(0))
              => best_validation_loss[0] # "inf"

(***************************************************************************)
(* C22: no step of any worker changes a parameter of the run               *)
(* configuration: mist_arguments, steps_per_epoch included, stays as it    *)
(* was read at the start.                                                  *)
(***************************************************************************)
C22_ConfigurationNeverMutated ==
  [][/\ mist_arguments' = mist_arguments
     /\ steps_per_epoch' = steps_per_epoch]_vars

(***************************************************************************)
(* C23: the split is a function of the ordered id list, the validation     *)
(* fraction and the seed: whenever two workers (or one worker twice) have  *)
(* split the training ids of the same fold, they hold the same training    *)
(* part and the same validation part, in the same order.                   *)
(***************************************************************************)
SplitsOf(r) == { i \in DOMAIN hist[r] : hist[r][i].op = "split" }

RECURSIVE SumFed(_, _, _)
SumFed(r, j, i) ==
  IF j > i THEN 0 ELSE hist[r][j].v.fed + SumFed(r, j + 1, i)

\* The position of the last reset (or of the creation) before i.
LastReset(r, i) ==
  CHOOSE j \in 1..(i - 1) :
    /\ hist[r][j].op \in {"RunningMean", "reset_states"}
    /\ \A k \in (j + 1)..(i - 1) : hist[r][k].op = "running_loss_train"

(***************************************************************************)
(* C25: every call of the running mean returns the arithmetic mean of the  *)
(* values fed since the last reset (since the creation if there was        *)
(* none), this call's value included: the i-th call after a reset returns  *)
(* (v1 + ... + vi) / i, and the first call after a reset returns its       *)
(* value unchanged.                                                        *)
(***************************************************************************)
C25_RunningMeanIsArithmeticMean ==
  \A r \in Ranks : \A i \in DOMAIN hist[r] :
    hist[r][i].op = "running_loss_train" =>
      LET j == LastReset(r, i)
      IN /\ FracEq(hist[r][i].v.returned, << SumFed(r, j + 1, i), i - j >>)
         /\ (i = j + 1) => FracEq(hist[r][i].v.returned,
                                  << hist[r][i].v.fed, 1 >>)

\* Fed 2, 4, 6 the mean returned 2, 3, 4; after a reset it was fed 6 and
\* returned 6.
C25_Witness ==
  \E r \in Ranks :
    /\ Len(hist[r]) = 6
    /\ [i \in 1..6 |-> hist[r][i].op]
         = << "RunningMean", "running_loss_train", "running_loss_train",
              "running_loss_train", "reset_states", "running_loss_train" >>
    /\ [i \in 2..4 |-> hist[r][i].v.fed] = [i \in 2..4 |-> 2 * (i - 1)]
    /\ \A i \in 2..4 : FracEq(hist[r][i].v.returned, << i, 1 >>)
    /\ hist[r][6].v.fed = 6
    /\ FracEq(hist[r][6].v.returned, << 6, 1 >>)

\* Worker r holds both running means and nothing is folded into either.
AccumulatorsEmpty(r) ==
  /\ train_state[r].running_loss_train = RunningMean
  /\ train_state[r].running_loss_validation = RunningMean

\* Worker r is about to begin the first epoch of a fold.
AtFoldStart(r) == pc[r] = "epoch_head" /\ epochs_started[r] = 0

\* Worker r has begun an epoch and has not taken its first batch.
AtEpochStart(r) == pc[r] = "dump_loop" /\ step[r] = 0

(***************************************************************************)
(* C30: on rank 0 the training and the validation running mean are both    *)
(* empty at the start of every fold and at the start of every epoch, so    *)
(* a mean read during an epoch holds only values folded in during that     *)
(* epoch of that fold; and a value is folded in only by a worker that      *)
(* holds the accumulators of its current fold.                             *)
(***************************************************************************)
C30_AccumulatorsEmptyAtEpochStart ==
  /\ (0 \in Ranks /\ (AtFoldStart(0) \/ AtEpochStart(0)))
       => AccumulatorsEmpty(0)
  /\ \A r \in Ranks :
       (train_state[r].running_loss_train # None
          /\ train_state[r].running_loss_train # RunningMean)
         => (r = 0 /\ ~InEpochLoop(r))

\* Rank 0 begins the second epoch of its second fold, after batches taken
\* in the first epoch, with both running means empty.
C30_Witness ==
  /\ AtEpochStart(0)
  /\ epoch[0] = 1
  /\ fold_index[0] = 2
  /\ \E i \in DOMAIN hist[0] :
       hist[0][i].op = "next_batch" /\ hist[0][i].epoch = 0
                                    /\ hist[0][i].fold = fold(0)
  /\ AccumulatorsEmpty(0)

\* Rank 0's writer raised in add_scalars or in flush.
SinkFailed ==
  /\ 0 \in Ranks
  /\ \E i \in DOMAIN hist[0] :
       hist[0][i].op \in {"add_scalars", "flush"} /\ hist[0][i].v = FALSE

AlphaCalls(r) == { i \in DOMAIN hist[r] : hist[r][i].op = "alpha" }

(***************************************************************************)
(* C26: every call of the alpha schedule with an epoch index of the run    *)
(* returns a value in [0, 1]; two calls with the same epoch index return   *)
(* the same value; and under the linear variant the value returned for     *)
(* epoch e is at most the value returned for epoch e + 1.                  *)
(***************************************************************************)
C26_AlphaInUnitIntervalAndMonotone ==
  \A r \in Ranks : \A i, j \in AlphaCalls(r) :
    LET x == hist[r][i]
        y == hist[r][j]
    IN /\ FracLe(<< 0, 1 >>, x.v) /\ FracLe(x.v, << 1, 1 >>)
       /\ x.epoch = y.epoch => FracEq(x.v, y.v)
       /\ (mist_arguments.boundary_loss_schedule = "linear"
             /\ y.epoch = x.epoch + 1) => FracLe(x.v, y.v)
       /\ \A e \in 0..(mist_arguments.epochs - 2) :
            mist_arguments.boundary_loss_schedule = "linear"
              => FracLe(AlphaSchedule(e), AlphaSchedule(e + 1))

\* A linear schedule with a pause was called for two consecutive epochs
\* after the pause and returned a strictly larger value the second time,
\* neither 0 nor the end of the ramp.
C26_Witness ==
  \E r \in Ranks :
    /\ mist_arguments.boundary_loss_schedule = "linear"
    /\ mist_arguments.linear_schedule_pause = 1
    /\ Len(hist[r]) = 2
    /\ hist[r][1].epoch = 2
    /\ hist[r][2].epoch = 3
    /\ ~FracLe(hist[r][1].v, << 0, 1 >>)
    /\ ~FracLe(hist[r][2].v, hist[r][1].v)

\* The positions of worker r's history that hold one of the operations ops.
Positions(r, ops) == { i \in DOMAIN hist[r] : hist[r][i].op \in ops }

\* Every position of S comes before every position of T.
AllBefore(S, T) == \A i \in S, j \in T : i < j

BackwardCalls == {"backward", "scale_backward"}
\* The call that steps the optimizer: through the scaler under AMP.
OptimizerCalls ==
  IF mist_arguments.amp THEN {"scaler_step"} ELSE {"optimizer_step"}

(***************************************************************************)
(* C27: in the training step of a worker the gradients are zeroed before   *)
(* the backward pass, the optimizer step (plain, or through the scaler)    *)
(* comes after the backward pass and after the clipping if there is one,   *)
(* the learning-rate schedule is stepped after the optimizer step and      *)
(* before the loss is reduced, and by the time a worker issues the reduce  *)
(* it has stepped the schedule exactly once per training step it made.     *)
(***************************************************************************)
C27_StepOrder ==
  \A r \in Ranks :
    LET zero == Positions(r, {"zero_grad"})
        back == Positions(r, BackwardCalls)
        clip == Positions(r, {"clip_grad_norm"})
        opt == Positions(r, OptimizerCalls)
        lr == Positions(r, {"lr_step"})
        red == Positions(r, {"reduce"})
        steps == CountOp(hist[r], "train_step")
    IN /\ Cardinality(zero) = steps
       /\ Cardinality(back) = steps
       /\ Cardinality(opt) = steps
       /\ Cardinality(clip) = IF mist_arguments.clip_norm THEN steps ELSE 0
       /\ AllBefore(zero, back)
       /\ AllBefore(back, clip)
       /\ AllBefore(back, opt)
       /\ AllBefore(clip, opt)
       /\ AllBefore(opt, lr)
       /\ AllBefore(lr, red)
       /\ Cardinality(lr) <= steps
       /\ red # {} => Cardinality(lr) = steps

\* A worker that clips gradients has made a training step, stepped the
\* schedule and issued the reduce.
C27_Witness ==
  \E r \in Ranks :
    /\ mist_arguments.clip_norm
    /\ ~mist_arguments.amp
    /\ Positions(r, {"optimizer_step"}) # {}
    /\ Positions(r, {"lr_step"}) # {}
    /\ Positions(r, {"reduce"}) # {}

(***************************************************************************)
(* C28: with AMP enabled the scaler-related calls of a training step are,  *)
(* in this order: backward on the scaled loss; unscale and then clip, both *)
(* if and only if clipping is configured; the optimizer step through the   *)
(* scaler; the scale update.  Gradients are clipped only after they were   *)
(* unscaled, and the scale is updated once per training step.              *)
(***************************************************************************)
C28_AmpStepOrder ==
  mist_arguments.amp =>
    \A r \in Ranks :
      LET back == Positions(r, {"scale_backward"})
          unscale == Positions(r, {"unscale"})
          clip == Positions(r, {"clip_grad_norm"})
          opt == Positions(r, {"scaler_step"})
          update == Positions(r, {"scaler_update"})
          steps == CountOp(hist[r], "train_step")
          clipped == IF mist_arguments.clip_norm THEN steps ELSE 0
      IN /\ Positions(r, {"backward"}) = {}
         /\ Cardinality(back) = steps
         /\ Cardinality(unscale) = clipped
         /\ Cardinality(clip) = clipped
         /\ Cardinality(opt) = steps
         /\ Cardinality(update) = steps
         /\ AllBefore(back, unscale)
         /\ AllBefore(unscale, clip)
         /\ AllBefore(back, opt)
         /\ AllBefore(clip, opt)
         /\ AllBefore(opt, update)
         /\ AllBefore(Positions(r, {"optimizer_step"}), update)
         /\ AllBefore(opt, Positions(r, {"optimizer_step"}))

\* A worker under AMP that clips gradients has completed a training step.
C28_Witness ==
  \E r \in Ranks :
    /\ mist_arguments.amp
    /\ mist_arguments.clip_norm
    /\ Positions(r, {"unscale"}) # {}
    /\ Positions(r, {"clip_grad_norm"}) # {}
    /\ Positions(r, {"scaler_update"}) # {}

\* One as a fraction when the flag is set, zero otherwise.
Flag(b) == IF b THEN << 1, 1 >> ELSE << 0, 1 >>

(***************************************************************************)
(* C29: in the loss of a training step the VAE term and the L2 and L1      *)
(* parameter-norm terms enter with their penalty alone, not multiplied by  *)
(* the normalization constant c of deep supervision, and each enters if    *)
(* and only if its flag is set; the primary term and the head terms carry  *)
(* c: total = c * (primary + sum of 0.5^(k+1) head_k) + vae_penalty * vae  *)
(* + l2_penalty * L2 + l1_penalty * L1, with c = 1 and no head term        *)
(* without deep supervision.                                               *)
(***************************************************************************)
C29_PenaltiesNotRescaled ==
  \A r \in Ranks :
    "train_step" \in Ops(hist[r]) =>
      LET terms == train_state[r].terms[1]
          H == mist_arguments.deep_supervision_heads
          c == IF mist_arguments.deep_supervision
                 THEN << Pow2(H + 1), Pow2(H + 2) - 1 >>
                 ELSE << 1, 1 >>
      IN /\ FracEq(terms.vae, Flag(mist_arguments.vae_reg))
         /\ FracEq(terms.l2, Flag(mist_arguments.l2_reg))
         /\ FracEq(terms.l1, Flag(mist_arguments.l1_reg))
         /\ FracEq(terms.primary, c)
         /\ Len(terms.heads) =
              IF mist_arguments.deep_supervision THEN H ELSE 0
         /\ \A k \in DOMAIN terms.heads :
              FracEq(terms.heads[k], FracMul(c, << 1, Pow2(k) >>))

\* A worker has made a training step with deep supervision over two or
\* more heads (so c is not 1) and with the VAE, L2 and L1 terms all on.
C29_Witness ==
  \E r \in Ranks :
    /\ "train_step" \in Ops(hist[r])
    /\ mist_arguments.deep_supervision
    /\ mist_arguments.deep_supervision_heads >= 2
    /\ mist_arguments.vae_reg /\ mist_arguments.l2_reg /\ mist_arguments.l1_reg
    /\ ~FracEq(train_state[r].terms[1].primary, << 1, 1 >>)
    /\ FracEq(train_state[r].terms[1].vae, << 1, 1 >>)

\* The set of the entries of a sequence.
Range(seq) == { seq[i] : i \in DOMAIN seq }

C32_OneCheckpointPerFold ==
  /\ \A r \in Ranks : \A i \in DOMAIN hist[r] :
       hist[r][i].op = "save_checkpoint" =>
         /\ r = 0
         /\ hist[r][i].fold \in Range(folds)
         /\ \A j \in i..Len(hist[r]) :
              hist[r][j].fold = hist[r][i].fold
                \/ hist[r][j].op # "save_checkpoint"
                \/ \E k \in i..j : hist[r][k].op = "split"
  /\ (NoInputError /\ RunOver) =>
       \A k \in DOMAIN folds :
         \E i \in DOMAIN hist[0] : /\ hist[0][i].op = "save_checkpoint"
                                   /\ hist[0][i].fold = folds[k]

\* The validation running means that rank 0 observed in fold f before
\* position i of its history.
ValidationMeans(f, i) ==
  { j \in 1..(i - 1) : /\ hist[0][j].op = "running_loss_validation"
                       /\ hist[0][j].fold = f }

(***************************************************************************)
(* C34: within a fold rank 0's best validation loss never increases, and   *)
(* at the end of every epoch rank 0 has observed the validation running    *)
(* mean of that epoch and the best value is the least of the means         *)
(* observed so far in the fold (so it is no longer +infinity).             *)
(***************************************************************************)
C34_BestIsLeastValidationMean ==
  /\ \A i \in EpochEnds(0) :
       LET f == hist[0][i].fold
           e == hist[0][i].epoch
       IN /\ \E j \in ValidationMeans(f, i) : hist[0][j].epoch = e
          /\ (fold(0) = f /\ epoch[0] = e /\ pc[0] = "epoch_head"
                /\ ValidationMeans(f, i) # {})
               => \E j \in ValidationMeans(f, i) :
                    /\ best_validation_loss[0] = hist[0][j].v
                    /\ \A k \in ValidationMeans(f, i) :
                         FracLe(hist[0][j].v, hist[0][k].v)
  /\ (0 \in Ranks /\ InEpochLoop(0) /\ epochs_started[0] > 1)
       => best_validation_loss[0] # "inf"

\* The operations worker r logs in this transition.
NewOps(r) ==
  { hist'[r][i].op : i \in (Len(hist[r]) + 1)..Len(hist'[r]) }

\* The model parameters and optimizer state (the count of updates) and
\* the state of the AMP scaler of worker r.
Trained(t) == << t.params, t.scale, t.growth_tracker, t.found_inf >>

PassedValidationCheck(r) ==
  pc[r] \in {"loaders", "get_loss", "build_model", "epoch_head",
             "dump_loop", "epoch_tail", "set_trace"}

(***************************************************************************)
(* C35: in a fold that has passed the validation-size check, the number    *)
(* of validation steps of every worker is the integer quotient of the      *)
(* size of the validation subset by world_size: it is at least 1, times    *)
(* world_size it does not exceed the size of the validation subset, and    *)
(* one step more would; so a validation loop over val_steps passes folds   *)
(* at least one value into the validation running mean.                    *)
(***************************************************************************)
C35_ValidationStepsQuotient ==
  \A r \in Ranks :
    PassedValidationCheck(r) =>
      /\ val_steps[r] >= 1
      /\ val_steps[r] * world_size <= n_val[r]
      /\ (val_steps[r] + 1) * world_size > n_val[r]
      /\ \A i \in SplitsOf(r) :
           hist[r][i].fold = fold(r) => n_val[r] = Len(hist[r][i].v.val)

\* A worker of a run of two workers is in a fold whose validation subset
\* has three examples: one validation step each, one example left over.
C35_Witness ==
  \E r \in Ranks :
    /\ PassedValidationCheck(r)
    /\ world_size = 2
    /\ n_val[r] = 3
    /\ val_steps[r] = 1
    /\ pc[r] = "epoch_head"

(***************************************************************************)
(* C36: preprocess_dataset raises for no combination of no_preprocess and  *)
(* crop_to_fg: the process is never ended by an exception, and whenever    *)
(* it has looked up the foreground bounding box of a row, the              *)
(* bounding-box table was loaded before.                                   *)
(***************************************************************************)
C36_PreprocessNeverRaises ==
  \A r \in Ranks :
    /\ err[r] = ""
    /\ ~Stopped(r)
    /\ \A i \in DOMAIN hist[r] :
         hist[r][i].op = "fg_bbox_lookup" =>
           \E j \in 1..(i - 1) : hist[r][j].op = "read_fg_bboxes"

=============================================================================
